---- MODULE Spec2Model ----
(***************************************************************************)
(* RaceGym simulation core: rigid bodies and the world that owns them      *)
(* (physics.cpp), the closed quadratic-Bezier track (track.cpp), the       *)
(* four-wheel vehicle (vehicle.cpp) and the C API of a session (sim.cpp).  *)
(*                                                                         *)
(* Numbers.  The program computes in 32-bit floats.  Here a float is an    *)
(* integer count of 1/SCALE units (lengths in m, speeds in m/s, angles in  *)
(* rad, rates in rad/s, the curve parameter t, control inputs), rounded to *)
(* nearest after every product and quotient; quaternions and unit vectors  *)
(* are counts of 1/QS; forces (N) and torques (N m) are whole numbers.  A  *)
(* time step is the pair <<num, den>> of the fraction num/den seconds.     *)
(***************************************************************************)
EXTENDS Integers, Sequences, FiniteSets, TLC

VARIABLES
    track,      \* ctx->track: NoTrack, or the Track object (points, numSegments)
    vehicles,   \* ctx->vehicles: sequence of Vehicle handles
    vehicleObj, \* the Vehicle objects allocated so far, by handle
    bodies,     \* PhysicsWorld::bodies: sequence of body handles
    bodyObj,    \* the PhysicsBody objects World holds, by handle
    status,     \* "running", or how the process ended: "crashed", "hung"
    ret,        \* the last call: its name, arguments and what it returned
    calls       \* number of state-changing calls made so far

vars == <<track, vehicles, vehicleObj, bodies, bodyObj, status, ret, calls>>

\* the null pointer to a Vehicle (handles are positive numbers)
NULL == 0

\* ctx->track == nullptr
NoTrack == [null |-> TRUE]

(***************************************************************************)
(* Fixed-point arithmetic                                                  *)
(***************************************************************************)
SCALE == 10 ^ 3
QS == 10 ^ 4
BIG == 2 * 10 ^ 6

Abs(x) == IF x < 0 THEN -x ELSE x
Sign(x) == IF x > 0 THEN 1 ELSE IF x < 0 THEN -1 ELSE 0
Min(a, b) == IF a < b THEN a ELSE b
Max(a, b) == IF a > b THEN a ELSE b
Clamp(x, lo, hi) == IF x < lo THEN lo ELSE IF hi < x THEN hi ELSE x

\* a / b rounded to nearest (b # 0)
RDiv(a, b) ==
    LET n == IF b < 0 THEN -a ELSE a
        d == Abs(b)
    IN  (n + d \div 2) \div d

\* a * b / d rounded, without forming a * b when it would not fit
MulDiv(a, b, d) ==
    LET x == IF Abs(a) >= Abs(b) THEN a ELSE b
        y == IF Abs(a) >= Abs(b) THEN b ELSE a
    IN  (x \div d) * y + RDiv((x % d) * y, d)

\* product and quotient of two scaled numbers
MulS(a, b) == MulDiv(a, b, SCALE)

\* (u * v) * x for scaled u, v in -2 .. 2 and any scaled x: the weight u * v is
\* kept exact until the product is rounded
MulS2(u, v, x) == RDiv(MulDiv(u * v, x, SCALE), SCALE)

DivS(a, b) ==
    LET n == IF b < 0 THEN -a ELSE a
        d == Abs(b)
        q == n \div d
        r == n % d
        k == d \div BIG + 1
    IN  IF q >= BIG THEN BIG * SCALE
        ELSE IF q < -BIG THEN -(BIG * SCALE)
        ELSE q * SCALE + RDiv((r \div k) * SCALE, d \div k)

\* static_cast<int>(t): truncation toward zero
TruncToInt(t) == Sign(t) * (Abs(t) \div SCALE)
\* std::floor(t), as a scaled number
Floor(t) == (t \div SCALE) * SCALE
\* the C++ % operator on ints (sign of the dividend), n # 0
CRem(a, n) == Sign(a) * (Abs(a) % Abs(n))

\* TRUE for every value; TLC computes x to decide it, so a loop guarded by it
\* computes each pass before it starts the next
Evaluated(x) == x = x

RECURSIVE SqrtIter(_, _)
SqrtIter(n, x) ==
    LET y == (x + n \div x) \div 2
    IN  IF y >= x THEN x ELSE SqrtIter(n, y)

\* floor of the square root of n >= 0
ISqrt(n) == IF n <= 0 THEN 0 ELSE SqrtIter(n, n \div 2 + 1)

(***************************************************************************)
(* glm::vec2                                                               *)
(***************************************************************************)
V2Add(u, v) == <<u[1] + v[1], u[2] + v[2]>>
V2Sub(u, v) == <<u[1] - v[1], u[2] - v[2]>>
\* s * v with s scaled
V2Scale(s, v) == <<MulS(s, v[1]), MulS(s, v[2])>>
\* (s * r) * v with s and r scaled
V2Scale2(s, r, v) == <<MulS2(s, r, v[1]), MulS2(s, r, v[2])>>
\* n * v with n a whole number
V2Times(n, v) == <<n * v[1], n * v[2]>>
V2Dot(u, v) == MulS(u[1], v[1]) + MulS(u[2], v[2])

(***************************************************************************)
(* Track (track.cpp).  A Track object is [points, numSegments]: points is  *)
(* the sequence of control points, numSegments the int field.              *)
(***************************************************************************)
TRACK_WIDTH == 12 * SCALE

\* points[i] of the std::vector (0-based)
PointAt(tr, i) == tr.points[i + 1]
InRange(tr, i) == 0 <= i /\ i < Len(tr.points)

\* int segment = static_cast<int>(t) % numSegments
SegmentOf(tr, t) == CRem(TruncToInt(t), tr.numSegments)

\* index of p2: (segment * 2 + 2) % points.size()
NextIndex(tr, seg) == (seg * 2 + 2) % Len(tr.points)

\* getPosition(t) divides by numSegments and reads points[segment * 2],
\* points[segment * 2 + 1] and p2: defined behaviour only if these exist
PositionDefined(tr, t) ==
    /\ tr.numSegments # 0
    /\ InRange(tr, SegmentOf(tr, t) * 2)
    /\ InRange(tr, SegmentOf(tr, t) * 2 + 1)

\* invT * invT * p0 + 2 * invT * localT * p1 + localT * localT * p2
Bezier(p0, p1, p2, localT) ==
    LET invT == SCALE - localT
    IN  V2Add(V2Add(V2Scale2(invT, invT, p0),
                    V2Scale2(2 * invT, localT, p1)),
              V2Scale2(localT, localT, p2))

getPosition(tr, t) ==
    LET segment == SegmentOf(tr, t)
        p0 == PointAt(tr, segment * 2)
        p1 == PointAt(tr, segment * 2 + 1)
        p2 == PointAt(tr, NextIndex(tr, segment))
        localT == t - Floor(t)
    IN  Bezier(p0, p1, p2, localT)

\* |(x, y)| without squaring numbers too large to square
Hypot(x, y) ==
    LET k == Max(Abs(x), Abs(y)) \div 30000 + 1
    IN  k * ISqrt((x \div k) * (x \div k) + (y \div k) * (y \div k))

\* glm::normalize of a vec2: a unit vector in 1/QS units.  The program
\* yields NaN components for the zero vector; here <<0, 0>> stands for them
Normalize2(v) ==
    LET len == Hypot(v[1], v[2])
    IN  IF len = 0 THEN <<0, 0>>
        ELSE <<MulDiv(v[1], QS, len), MulDiv(v[2], QS, len)>>

\* const float delta = 0.001f
TangentDelta == SCALE \div 1000

getTangent(tr, t) ==
    LET p1 == getPosition(tr, t)
        p2 == getPosition(tr, t + TangentDelta)
    IN  Normalize2(V2Sub(p2, p1))

getNormal(tr, t) ==
    LET tangent == getTangent(tr, t)
    IN  <<-tangent[2], tangent[1]>>

\* std::numeric_limits<float>::max()
FLT_MAX == 2 * 10 ^ 9

\* std::abs(x) < 1e-6f for a scaled x
Below1e6(x) == Abs(x) < (SCALE + 10 ^ 6 - 1) \div 10 ^ 6

\* B(t) - Q = c + t*b + t*t*a   and   B'(t) = b + 2*t*a
CurveOffset(a, b, c, t) == V2Add(V2Add(c, V2Scale(t, b)), V2Scale2(t, t, a))
CurveDeriv(a, b, t) == V2Add(b, V2Scale(2 * t, a))

\* candidates[i] = i / (numCandidates - 1)
NumCandidates == 11
NewtonIters == 5
Candidate(i) == RDiv(i * SCALE, NumCandidates - 1)

\* the Newton loop of one candidate: the value of t when the loop is left
RECURSIVE Newton(_, _, _, _, _)
Newton(t, iter, a, b, c) ==
    IF iter >= NewtonIters THEN t
    ELSE
        LET Bt == CurveOffset(a, b, c, t)
            dBt == CurveDeriv(a, b, t)
            f == V2Dot(Bt, dBt)
            df == V2Dot(dBt, dBt) + V2Dot(Bt, V2Times(2, a))
            newT == Max(0, Min(SCALE, t - DivS(f, df)))
        IN  IF Below1e6(df) THEN t
            ELSE IF Below1e6(newT - t) THEN t
            ELSE Newton(newT, iter + 1, a, b, c)

\* the loop over the candidates of one segment: <<segmentClosestT, segmentMinDistSq>>
RECURSIVE CandidateLoop(_, _, _, _, _, _)
CandidateLoop(i, segT, segD, a, b, c) ==
    IF i >= NumCandidates THEN <<segT, segD>>
    ELSE
        LET Compare(t, distSq) ==
                IF distSq < segD
                THEN CandidateLoop(i + 1, t, distSq, a, b, c)
                ELSE CandidateLoop(i + 1, segT, segD, a, b, c)
            Measure(t, Bt) == Compare(t, V2Dot(Bt, Bt))
            Converged(t) == Measure(t, CurveOffset(a, b, c, t))
        IN  Converged(Newton(Candidate(i), 0, a, b, c))

\* the loop over the segments: globalClosestT
RECURSIVE SegmentLoop(_, _, _, _, _)
SegmentLoop(seg, gT, gD, tr, position) ==
    IF seg >= tr.numSegments THEN gT
    ELSE
        LET p0 == PointAt(tr, seg * 2)
            p1 == PointAt(tr, seg * 2 + 1)
            p2 == PointAt(tr, NextIndex(tr, seg))
            a == V2Add(V2Sub(p0, V2Times(2, p1)), p2)
            b == V2Times(2, V2Sub(p1, p0))
            c == V2Sub(p0, position)
            Compare(best) ==
                IF best[2] < gD
                THEN SegmentLoop(seg + 1, seg * SCALE + best[1], best[2], tr, position)
                ELSE SegmentLoop(seg + 1, gT, gD, tr, position)
        IN  Compare(CandidateLoop(0, 0, FLT_MAX, a, b, c))

\* getClosestT reads points[seg * 2], points[seg * 2 + 1] and p2 for every
\* seg < numSegments
ClosestDefined(tr) ==
    \A seg \in 0 .. tr.numSegments - 1 : InRange(tr, seg * 2 + 1)

getClosestT(tr, position) == SegmentLoop(0, 0, FLT_MAX, tr, position)

\* the two wrapping loops of getWaypoints; they end only if numSegments > 0
WrapTerminates(tr) == tr.numSegments > 0

RECURSIVE WrapT(_, _)
WrapT(t, n) ==
    IF t >= n THEN WrapT(t - n, n)
    ELSE IF t < 0 THEN WrapT(t + n, n)
    ELSE t

\* a glm::vec3 lifted from a track point: (x, 0, y)
Lift(p) == <<p[1], 0, p[2]>>

\* normal * halfWidth for a unit normal in 1/QS units
Offset(normal, halfWidth) ==
    <<MulDiv(normal[1], halfWidth, QS), MulDiv(normal[2], halfWidth, QS)>>

\* the vector of 2 * numWaypoints points, left before right
RECURSIVE WaypointLoop(_, _, _, _, _, _)
WaypointLoop(i, waypoints, tr, currentT, numWaypoints, waypointSpacing) ==
    IF i >= numWaypoints THEN waypoints
    ELSE
        LET halfWidth == TRACK_WIDTH \div 2
            Pair(leftPos, rightPos) ==
                WaypointLoop(i + 1, waypoints \o <<Lift(leftPos), Lift(rightPos)>>,
                             tr, currentT, numWaypoints, waypointSpacing)
            Sides(centerPos, normal) ==
                Pair(V2Add(centerPos, Offset(normal, halfWidth)),
                     V2Sub(centerPos, Offset(normal, halfWidth)))
            At(t) == Sides(getPosition(tr, t), getNormal(tr, t))
        IN  At(WrapT(currentT + i * waypointSpacing, tr.numSegments * SCALE))

getWaypoints(tr, currentT, numWaypoints, waypointSpacing) ==
    WaypointLoop(0, <<>>, tr, currentT, numWaypoints, waypointSpacing)

(***************************************************************************)
(* glm::vec3 and glm::quat.  A quaternion is <<w, x, y, z>> in 1/QS units. *)
(***************************************************************************)
Zero3 == <<0, 0, 0>>
V3Add(u, v) == <<u[1] + v[1], u[2] + v[2], u[3] + v[3]>>
V3Sub(u, v) == <<u[1] - v[1], u[2] - v[2], u[3] - v[3]>>

\* x * dt for a time step dt = <<num, den>>
TimesDt(x, dt) == MulDiv(x, dt[1], dt[2])
V3TimesDt(v, dt) == <<TimesDt(v[1], dt), TimesDt(v[2], dt), TimesDt(v[3], dt)>>

\* glm::cross(u, v) / d, each product rounded
Cross(u, v, d) ==
    <<MulDiv(u[2], v[3], d) - MulDiv(u[3], v[2], d),
      MulDiv(u[3], v[1], d) - MulDiv(u[1], v[3], d),
      MulDiv(u[1], v[2], d) - MulDiv(u[2], v[1], d)>>

\* glm::dot(u, v) / d
Dot3(u, v, d) == MulDiv(u[1], v[1], d) + MulDiv(u[2], v[2], d) + MulDiv(u[3], v[3], d)

\* glm::length of a vec3
Length3(v) ==
    LET k == Max(Max(Abs(v[1]), Abs(v[2])), Abs(v[3])) \div 20000 + 1
    IN  k * ISqrt((v[1] \div k) * (v[1] \div k) + (v[2] \div k) * (v[2] \div k)
                  + (v[3] \div k) * (v[3] \div k))

\* glm::normalize of a vec3: a unit vector in 1/QS units
Normalize3(v) ==
    LET len == Length3(v)
    IN  IF len = 0 THEN Zero3
        ELSE <<MulDiv(v[1], QS, len), MulDiv(v[2], QS, len), MulDiv(v[3], QS, len)>>

IdentityQuat == <<QS, 0, 0, 0>>

\* the quaternion product p * q / d
QuatMul(p, q, d) ==
    <<MulDiv(p[1], q[1], d) - MulDiv(p[2], q[2], d) - MulDiv(p[3], q[3], d) - MulDiv(p[4], q[4], d),
      MulDiv(p[1], q[2], d) + MulDiv(p[2], q[1], d) + MulDiv(p[3], q[4], d) - MulDiv(p[4], q[3], d),
      MulDiv(p[1], q[3], d) + MulDiv(p[3], q[1], d) + MulDiv(p[4], q[2], d) - MulDiv(p[2], q[4], d),
      MulDiv(p[1], q[4], d) + MulDiv(p[4], q[1], d) + MulDiv(p[2], q[3], d) - MulDiv(p[3], q[2], d)>>

\* |q| in 1/QS units
QuatLength(q) ==
    LET m == Max(Max(Abs(q[1]), Abs(q[2])), Max(Abs(q[3]), Abs(q[4])))
        k == m \div 20000 + 1
    IN  k * ISqrt((q[1] \div k) * (q[1] \div k) + (q[2] \div k) * (q[2] \div k)
                  + (q[3] \div k) * (q[3] \div k) + (q[4] \div k) * (q[4] \div k))

\* glm::normalize of a quat: the identity when the length is not positive
\* the quaternion left as it is, in the place of glm::normalize
QuatUnnormalized(q) == q

QuatNormalize(q) ==
    LET len == QuatLength(q)
    IN  IF len <= 0 THEN IdentityQuat
        ELSE <<MulDiv(q[1], QS, len), MulDiv(q[2], QS, len),
               MulDiv(q[3], QS, len), MulDiv(q[4], QS, len)>>

\* glm's quat * vec3: v + 2 * (w * cross(u, v) + cross(u, cross(u, v)))
Rotate(q, v) ==
    LET u == <<q[2], q[3], q[4]>>
        uv == Cross(u, v, QS)
        uuv == Cross(u, uv, QS)
    IN  <<v[1] + 2 * (MulDiv(uv[1], q[1], QS) + uuv[1]),
          v[2] + 2 * (MulDiv(uv[2], q[1], QS) + uuv[2]),
          v[3] + 2 * (MulDiv(uv[3], q[1], QS) + uuv[3])>>

(***************************************************************************)
(* PhysicsBody and PhysicsWorld (physics.h, physics.cpp).  A body is a     *)
(* record; World's vector holds handles and bodyObj maps a handle to the   *)
(* object while it is allocated.                                           *)
(***************************************************************************)
\* BoxShape::getInertiaTensor for half extents in scaled metres
getInertiaTensor(halfExtents, mass) ==
    LET sq(h) == MulS(2 * h, 2 * h)
        hx == halfExtents[1]
        hy == halfExtents[2]
        hz == halfExtents[3]
    IN  <<RDiv(MulS(mass, sq(hy) + sq(hz)), 12),
          RDiv(MulS(mass, sq(hx) + sq(hz)), 12),
          RDiv(MulS(mass, sq(hx) + sq(hy)), 12)>>

\* the PhysicsBody constructor; inertia is set only when mass > 0 (the
\* field is read only when mass > 0)
NewBody(halfExtents, mass, position, orientation) ==
    [ mass |-> mass,
      inertia |-> IF mass > 0 THEN getInertiaTensor(halfExtents, mass) ELSE Zero3,
      position |-> position,
      velocity |-> Zero3,
      orientation |-> orientation,
      angularVelocity |-> Zero3,
      accumulatedForce |-> Zero3,
      accumulatedTorque |-> Zero3 ]

applyForce(b, force) ==
    [b EXCEPT !.accumulatedForce = V3Add(b.accumulatedForce, force)]

applyForceAtPoint(b, force, point) ==
    LET r == V3Sub(point, b.position)
    IN  [b EXCEPT !.accumulatedForce = V3Add(b.accumulatedForce, force),
                  !.accumulatedTorque = V3Add(b.accumulatedTorque, Cross(r, force, SCALE))]

\* the integration of PhysicsBody::step, done when mass > 0
Integrate(b, dt) ==
    LET acceleration == <<MulDiv(b.accumulatedForce[1], SCALE, b.mass),
                          MulDiv(b.accumulatedForce[2], SCALE, b.mass),
                          MulDiv(b.accumulatedForce[3], SCALE, b.mass)>>
        angularAcceleration == <<MulDiv(b.accumulatedTorque[1], SCALE, b.inertia[1]),
                                 MulDiv(b.accumulatedTorque[2], SCALE, b.inertia[2]),
                                 MulDiv(b.accumulatedTorque[3], SCALE, b.inertia[3])>>
        \* orientation += 0.5f * angularVelQuat * orientation * deltaTime
        Turned(spin) == <<b.orientation[1] + MulDiv(spin[1], dt[1], 2 * dt[2]),
                          b.orientation[2] + MulDiv(spin[2], dt[1], 2 * dt[2]),
                          b.orientation[3] + MulDiv(spin[3], dt[1], 2 * dt[2]),
                          b.orientation[4] + MulDiv(spin[4], dt[1], 2 * dt[2])>>
        Moved(velocity, angularVelocity) ==
            [b EXCEPT !.velocity = velocity,
                      !.position = V3Add(b.position, V3TimesDt(velocity, dt)),
                      !.angularVelocity = angularVelocity,
                      !.orientation =
                          QuatNormalize(Turned(QuatMul(<<0, angularVelocity[1], angularVelocity[2],
                                                         angularVelocity[3]>>,
                                                       b.orientation, SCALE)))]
    IN  Moved(V3Add(b.velocity, V3TimesDt(acceleration, dt)),
              V3Add(b.angularVelocity, V3TimesDt(angularAcceleration, dt)))

\* PhysicsBody::step as it would be without the test of the mass: a body of
\* mass <= 0 is integrated as one of the mass and inertia of a chassis
BodyStepAnyMass(b, dt) ==
    LET Cleared(moved) == [moved EXCEPT !.accumulatedForce = Zero3, !.accumulatedTorque = Zero3]
        Restored(moved) == [moved EXCEPT !.mass = b.mass, !.inertia = b.inertia]
    IN  Cleared(IF b.mass > 0 THEN Integrate(b, dt)
                ELSE Restored(Integrate([b EXCEPT !.mass = 1200,
                                                 !.inertia = <<1700, 2000, 500>>], dt)))

\* PhysicsBody::step as it would be with the clearing inside the test of the
\* mass: a body that is skipped keeps its accumulators
BodyStepClearIfMoved(b, dt) ==
    LET Cleared(moved) == [moved EXCEPT !.accumulatedForce = Zero3, !.accumulatedTorque = Zero3]
    IN  IF b.mass > 0 THEN Cleared(Integrate(b, dt)) ELSE b

\* PhysicsBody::step
BodyStep(b, dt) ==
    LET Cleared(moved) == [moved EXCEPT !.accumulatedForce = Zero3, !.accumulatedTorque = Zero3]
    IN  Cleared(IF b.mass > 0 THEN Integrate(b, dt) ELSE b)

\* PhysicsWorld::gravity, in scaled m/s^2
Gravity == <<0, -9810, 0>>

\* gravity * mass, in N
Weight(mass) == <<MulS(Gravity[1], mass), MulS(Gravity[2], mass), MulS(Gravity[3], mass)>>

\* PhysicsWorld::stepSimulation: every held body, in insertion order
RECURSIVE StepBodies(_, _, _, _)
StepBodies(i, held, objs, dt) ==
    IF i > Len(held) THEN objs
    ELSE
        LET Rest(stepped) ==
                IF Evaluated(stepped)
                THEN StepBodies(i + 1, held, [objs EXCEPT ![held[i]] = stepped], dt)
                ELSE objs
        IN  Rest(BodyStep(applyForce(objs[held[i]], Weight(objs[held[i]].mass)), dt))

stepSimulation(held, objs, dt) == StepBodies(1, held, objs, dt)

\* a handle no allocated object has (the address operator new returns)
FreshHandle(objs) == CHOOSE h \in 1 .. Cardinality(DOMAIN objs) + 1 : h \notin DOMAIN objs

\* the object map with one more object
Allocate(objs, h, obj) == [i \in DOMAIN objs \cup {h} |-> IF i = h THEN obj ELSE objs[i]]

\* the object map without the object at h (delete)
Release(objs, h) == [i \in DOMAIN objs \ {h} |-> objs[i]]

\* the sequence without its first element equal to h (std::find, erase)
RECURSIVE EraseFirst(_, _)
EraseFirst(seq, h) ==
    IF seq = <<>> THEN <<>>
    ELSE IF Head(seq) = h THEN Tail(seq)
    ELSE <<Head(seq)>> \o EraseFirst(Tail(seq), h)

Contains(seq, h) == \E i \in 1 .. Len(seq) : seq[i] = h

(***************************************************************************)
(* Elementary functions, on scaled radians, by rational approximations     *)
(* (absolute error below 0.005): the claims depend on their sign, bounds   *)
(* and monotonic shape, not on their digits.                               *)
(***************************************************************************)
PiS == RDiv(355 * SCALE, 113)
HalfPiS == PiS \div 2

\* sin on [0, pi]: 16 x (pi - x) / (5 pi^2 - 4 x (pi - x))
SinHalfTurn(x) ==
    LET y == MulS(x, PiS - x)
    IN  RDiv(16 * y * SCALE, 5 * MulS(PiS, PiS) - 4 * y)

\* glm::sin
Sin(x) ==
    LET r == x % (2 * PiS)
    IN  IF r <= PiS THEN SinHalfTurn(r) ELSE -SinHalfTurn(r - PiS)

\* glm::cos
Cos(x) == Sin(x + HalfPiS)

\* atan on [-1, 1]: x / (1 + 0.28 x^2)
AtanUnit(x) == DivS(x, SCALE + MulDiv(MulS(x, x), 28, 100))

\* glm::atan of one argument
Atan(x) ==
    IF Abs(x) <= SCALE THEN AtanUnit(x)
    ELSE IF Abs(x) > SCALE * SCALE THEN Sign(x) * HalfPiS
    ELSE Sign(x) * HalfPiS - AtanUnit(DivS(SCALE, x))

\* glm::radians(30.0f)
Radians30 == RDiv(30 * PiS, 180)

(***************************************************************************)
(* Vehicle and Wheel (vehicle.h, vehicle.cpp).  A Vehicle object is        *)
(* [body, wheels, steerAmount, throttle, brake]; body is the handle of its *)
(* chassis.  The fields of a wheel that never change after construction    *)
(* are the definitions below; a wheel record holds the rest.               *)
(***************************************************************************)
VEHICLE_DIMENSIONS == <<2 * SCALE, 1 * SCALE, 4 * SCALE>>
VEHICLE_MASS == 1200
WHEEL_RADIUS == 350
SUSPENSION_TRAVEL == 150
SUSPENSION_STIFFNESS == 70000
SUSPENSION_DAMPING == 4500
ANTI_ROLL_BAR_STIFFNESS == 5000
MaxEnginePower == 50000
MaxEngineTorque == 2000
MaxBrakeTorque == 3000

\* PACEJKA_LONG and PACEJKA_LAT, scaled
PACEJKA_LONG == [B |-> 10 * SCALE, C |-> 1900, D |-> 1 * SCALE, E |-> 970]
PACEJKA_LAT == [B |-> 8 * SCALE, C |-> 1300, D |-> 1 * SCALE, E |-> -1600]

HalfExtents == <<VEHICLE_DIMENSIONS[1] \div 2, VEHICLE_DIMENSIONS[2] \div 2, VEHICLE_DIMENSIONS[3] \div 2>>

\* wheels[i].localPosition for i = 0 .. 3: front right, front left, rear right, rear left
WheelLocalPosition(i) ==
    LET x == VEHICLE_DIMENSIONS[1] \div 2
        y == WHEEL_RADIUS - VEHICLE_DIMENSIONS[2] \div 2
        z == VEHICLE_DIMENSIONS[3] \div 2
    IN  CASE i = 0 -> << x, y,  z>>
          [] i = 1 -> <<-x, y,  z>>
          [] i = 2 -> << x, y, -z>>
          [] i = 3 -> <<-x, y, -z>>

\* wheels[i].restLength
RestLength == SUSPENSION_TRAVEL + WHEEL_RADIUS

\* wheels[i].inertia = 0.5 * 10 * WHEEL_RADIUS^2 = 0.6125 kg m^2, as the
\* fraction WheelInertiaNum / WheelInertiaDen
WheelInertiaNum == (5 * WHEEL_RADIUS * WHEEL_RADIUS) \div 12500
WheelInertiaDen == (SCALE * SCALE) \div 12500

\* torque / wheels[i].inertia for a torque in N m: scaled rad/s^2
OverWheelInertia(torque) == MulDiv(torque, SCALE * WheelInertiaDen, WheelInertiaNum)

\* the wheel as the Vehicle constructor leaves it (wheels are indexed 1 .. 4
\* here, 0 .. 3 in the program)
NewWheel ==
    [ compression |-> 0,
      angularVelocity |-> 0,
      rollAngle |-> 0,
      steerAngle |-> 0,
      driveTorque |-> 0,
      brakeTorque |-> 0,
      antiRollForce |-> 0,
      lastContactPoint |-> Zero3,
      hasContact |-> FALSE ]

\* the Vehicle constructor's object, for the chassis handle body
NewVehicle(body) ==
    [ body |-> body,
      wheels |-> <<NewWheel, NewWheel, NewWheel, NewWheel>>,
      steerAmount |-> 0,
      throttle |-> 0,
      brake |-> 0 ]

\* glm::quat(glm::vec3(0, yaw, 0)) = (cos(yaw/2), 0, sin(yaw/2), 0), of length one
\* as glm's is: Sin and Cos here are approximations
YawQuat(yaw) ==
    QuatNormalize(<<MulDiv(Cos(yaw \div 2), QS, SCALE), 0, MulDiv(Sin(yaw \div 2), QS, SCALE), 0>>)

\* glm::angleAxis(angle, (0, 1, 0))
AngleAxisUp(angle) == YawQuat(angle)

setSteerAmount(v, steer) == [v EXCEPT !.steerAmount = Clamp(steer, -SCALE, SCALE)]
\* setThrottle as it would be without the clamp
setThrottleUnclamped(v, throttleInput) == [v EXCEPT !.throttle = throttleInput]
setThrottle(v, throttleInput) == [v EXCEPT !.throttle = Clamp(throttleInput, 0, SCALE)]
setBrake(v, brakeInput) == [v EXCEPT !.brake = Clamp(brakeInput, 0, SCALE)]

\* Wheel::calculatePacejka; normalForce in N, the result in N
calculatePacejka(slip, coeff, normalForce) ==
    LET Fz == normalForce
        D == MulS(coeff.D, Fz)
        input == MulS(coeff.B, slip)
        curved == input - MulS(coeff.E, input - Atan(input))
        output == MulS(D, Sin(MulS(coeff.C, Atan(curved))))
    IN  output

\* a * b / d for a divisor of either sign
SignedMulDiv(a, b, d) == IF d < 0 THEN MulDiv(-a, b, -d) ELSE MulDiv(a, b, d)

\* glm::abs(x) < 1e-4f for x in 1/QS units
Below1e4(x) == Abs(x) < (QS + 10 ^ 4 - 1) \div 10 ^ 4

\* the start of Vehicle::step as it would be with the anti-roll force given
\* to both wheels of an axle with the same sign
PrepareWheelsSameSide(v) ==
    LET w == v.wheels
        steer == MulS(v.steerAmount, Radians30)
        engineAngularVelocity == RDiv(w[3].angularVelocity + w[4].angularVelocity, 2)
        enginePower == MulS(v.throttle, MaxEnginePower)
        engineTorque == Min(MulDiv(enginePower, SCALE, Max(engineAngularVelocity, SCALE)),
                            MaxEngineTorque)
        driveTorque == RDiv(engineTorque, 2)
        brakeTorque == MulS(v.brake, MaxBrakeTorque)
        antiRoll(axle) == MulS(w[axle * 2 + 2].compression - w[axle * 2 + 1].compression,
                               ANTI_ROLL_BAR_STIFFNESS)
        prepared(i) ==
            [w[i] EXCEPT
                !.steerAngle = IF i <= 2 THEN steer ELSE 0,
                !.driveTorque = IF i <= 2 THEN 0 ELSE driveTorque,
                !.brakeTorque = brakeTorque,
                !.antiRollForce = antiRoll((i - 1) \div 2)]
    IN  <<prepared(1), prepared(2), prepared(3), prepared(4)>>

\* the start of Vehicle::step: steer angles, engine and brake torques and
\* the anti-roll forces, from the compressions the wheels hold
PrepareWheels(v) ==
    LET w == v.wheels
        steer == MulS(v.steerAmount, Radians30)
        engineAngularVelocity == RDiv(w[3].angularVelocity + w[4].angularVelocity, 2)
        enginePower == MulS(v.throttle, MaxEnginePower)
        engineTorque == Min(MulDiv(enginePower, SCALE, Max(engineAngularVelocity, SCALE)),
                            MaxEngineTorque)
        driveTorque == RDiv(engineTorque, 2)
        brakeTorque == MulS(v.brake, MaxBrakeTorque)
        antiRoll(axle) == MulS(w[axle * 2 + 2].compression - w[axle * 2 + 1].compression,
                               ANTI_ROLL_BAR_STIFFNESS)
        prepared(i) ==
            [w[i] EXCEPT
                !.steerAngle = IF i <= 2 THEN steer ELSE 0,
                !.driveTorque = IF i <= 2 THEN 0 ELSE driveTorque,
                !.brakeTorque = brakeTorque,
                !.antiRollForce = IF i % 2 = 0 THEN -antiRoll((i - 1) \div 2)
                                  ELSE antiRoll((i - 1) \div 2)]
    IN  <<prepared(1), prepared(2), prepared(3), prepared(4)>>

\* the brake stage as it would be without the test against the velocity:
\* the deceleration of the step is always taken off
ApplyBrakeUnlimited(angularVelocity, brakeTorque, dt) ==
    angularVelocity - Sign(angularVelocity) * TimesDt(OverWheelInertia(brakeTorque), dt)

\* the brake stage of the wheel spin update
ApplyBrake(angularVelocity, brakeTorque, dt) ==
    LET brakeAngularDecel == OverWheelInertia(brakeTorque)
    IN  IF Abs(angularVelocity) > TimesDt(brakeAngularDecel, dt)
        THEN angularVelocity - Sign(angularVelocity) * TimesDt(brakeAngularDecel, dt)
        ELSE 0

\* the suspension ray of wheel i (1 .. 4) against the plane y = 0:
\* [denom, t, mountWorld, axis]
SuspensionRay(b, i) ==
    LET Cast(mountWorld, suspAxisWorld) ==
            [ denom |-> suspAxisWorld[2],
              t |-> IF suspAxisWorld[2] = 0 THEN 0
                    ELSE SignedMulDiv(-mountWorld[2], QS, suspAxisWorld[2]),
              mountWorld |-> mountWorld,
              axis |-> suspAxisWorld ]
    IN  Cast(V3Add(b.position,
                   Rotate(b.orientation,
                          V3Sub(WheelLocalPosition(i - 1), <<0, WHEEL_RADIUS, 0>>))),
             Rotate(b.orientation, <<0, -QS, 0>>))

\* forceMag of the wheel loop: k * compression + SUSPENSION_DAMPING *
\* compressionVelocity + antiRollForce, in N, for the ray that reached the
\* ground
SuspensionForceMag(wheel, ray, dt) ==
    MulS(SUSPENSION_STIFFNESS, RestLength - ray.t)
        + MulS(SUSPENSION_DAMPING,
               MulDiv((RestLength - ray.t) - wheel.compression, dt[2], dt[1]))
        + wheel.antiRollForce

\* the body of the wheel loop for a wheel whose ray reached the ground:
\* <<chassis, wheel>> after it
WheelContact(b, wheel, ray, dt) ==
    LET contactPoint == <<ray.mountWorld[1] + MulDiv(ray.axis[1], ray.t, QS),
                          ray.mountWorld[2] + MulDiv(ray.axis[2], ray.t, QS),
                          ray.mountWorld[3] + MulDiv(ray.axis[3], ray.t, QS)>>
        compression == RestLength - ray.t
        forceMag == SuspensionForceMag(wheel, ray, dt)
        steerQuat == AngleAxisUp(wheel.steerAngle)
        r == V3Sub(contactPoint, b.position)
        contactVelocity == V3Add(b.velocity, Cross(b.angularVelocity, r, SCALE))
        \* the wheel after the spin update, the brake and the roll
        Rolled(braked) ==
            [wheel EXCEPT !.lastContactPoint = contactPoint,
                          !.hasContact = TRUE,
                          !.compression = compression,
                          !.angularVelocity = braked,
                          !.rollAngle = wheel.rollAngle + TimesDt(braked, dt)]
        Spun(wheelTorque) ==
            Rolled(ApplyBrake(wheel.angularVelocity + TimesDt(OverWheelInertia(wheelTorque), dt),
                              wheel.brakeTorque, dt))
        \* suspensionForce + forwardDir * longitudinalForce + sideDir * lateralForce
        \* on the chassis, and the wheel driven against longitudinalForce
        Apply(suspensionForce, forwardDir, sideDir, longitudinalForce, lateralForce) ==
            << applyForceAtPoint(b,
                   <<suspensionForce[1] + MulDiv(forwardDir[1], longitudinalForce, QS)
                                        + MulDiv(sideDir[1], lateralForce, QS),
                     suspensionForce[2] + MulDiv(forwardDir[2], longitudinalForce, QS)
                                        + MulDiv(sideDir[2], lateralForce, QS),
                     suspensionForce[3] + MulDiv(forwardDir[3], longitudinalForce, QS)
                                        + MulDiv(sideDir[3], lateralForce, QS)>>,
                   contactPoint),
               Spun(wheel.driveTorque - MulS(longitudinalForce, WHEEL_RADIUS)) >>
        Tire(normalForce, forwardDir, sideDir, forwardSpeed, sideSpeed, wheelCircumSpeed) ==
            Apply(<<0, normalForce, 0>>, forwardDir, sideDir,
                  calculatePacejka(DivS(wheelCircumSpeed - forwardSpeed,
                                        Max(Abs(forwardSpeed), SCALE \div 10)),
                                   PACEJKA_LONG, normalForce),
                  calculatePacejka(Atan(DivS(-sideSpeed, Max(Abs(forwardSpeed), SCALE \div 10))),
                                   PACEJKA_LAT, normalForce))
        Slip(velocity, forwardDir, sideDir) ==
            Tire(forceMag, forwardDir, sideDir,
                 Dot3(velocity, forwardDir, QS), Dot3(velocity, sideDir, QS),
                 MulS(wheel.angularVelocity, WHEEL_RADIUS))
        Steered(wheelOrientation) ==
            Slip(contactVelocity,
                 Rotate(wheelOrientation, <<0, 0, QS>>), Rotate(wheelOrientation, <<QS, 0, 0>>))
    IN  Steered(QuatMul(b.orientation, steerQuat, QS))

\* the wheel loop as it would be if the spin update and the brake acted on
\* a wheel whose ray did not reach the ground
WheelStepSpinningFree(b, wheel, i, dt) ==
    LET Free(braked) ==
            [wheel EXCEPT !.hasContact = FALSE,
                          !.angularVelocity = braked,
                          !.rollAngle = wheel.rollAngle + TimesDt(braked, dt)]
        Spin ==
            Free(ApplyBrake(wheel.angularVelocity
                                + TimesDt(OverWheelInertia(wheel.driveTorque), dt),
                            wheel.brakeTorque, dt))
        Hit(ray) ==
            IF Below1e4(ray.denom) THEN <<b, wheel>>
            ELSE IF ray.t < 0 THEN <<b, Spin>>
            ELSE IF ray.t > RestLength THEN <<b, Spin>>
            ELSE WheelContact(b, wheel, ray, dt)
    IN  Hit(SuspensionRay(b, i))

\* the wheel loop as it would be without the limit to the suspension reach
WheelStepUnlimitedReach(b, wheel, i, dt) ==
    LET Hit(ray) ==
            IF Below1e4(ray.denom) THEN <<b, wheel>>
            ELSE IF ray.t < 0 THEN <<b, [wheel EXCEPT !.hasContact = FALSE]>>
            ELSE WheelContact(b, wheel, ray, dt)
    IN  Hit(SuspensionRay(b, i))

\* one pass of the wheel loop, wheel i (1 .. 4): <<chassis, wheel>> after it
WheelStep(b, wheel, i, dt) ==
    LET Hit(ray) ==
            IF Below1e4(ray.denom) THEN <<b, wheel>>
            ELSE IF ray.t < 0 THEN <<b, [wheel EXCEPT !.hasContact = FALSE]>>
            ELSE IF ray.t > RestLength THEN <<b, [wheel EXCEPT !.hasContact = FALSE]>>
            ELSE WheelContact(b, wheel, ray, dt)
    IN  Hit(SuspensionRay(b, i))

RECURSIVE WheelLoop(_, _, _, _)
WheelLoop(i, b, wheels, dt) ==
    IF i > 4 THEN <<b, wheels>>
    ELSE
        LET Rest(after) ==
                IF Evaluated(after)
                THEN WheelLoop(i + 1, after[1], [wheels EXCEPT ![i] = after[2]], dt)
                ELSE <<b, wheels>>
        IN  Rest(WheelStep(b, wheels[i], i, dt))

\* the drag force: -velocity * |velocity| * 0.4, in N
Drag(velocity) ==
    LET Scaled(speed) == <<-MulDiv(MulS(velocity[1], speed), 4, 10 * SCALE),
                           -MulDiv(MulS(velocity[2], speed), 4, 10 * SCALE),
                           -MulDiv(MulS(velocity[3], speed), 4, 10 * SCALE)>>
    IN  Scaled(Length3(velocity))

\* Vehicle::step on the vehicle v with chassis b: <<chassis, vehicle>> after it
VehicleStep(b, v, dt) ==
    LET Dragged(after) ==
            << applyForce(after[1], Drag(after[1].velocity)), [v EXCEPT !.wheels = after[2]] >>
    IN  Dragged(WheelLoop(1, b, PrepareWheels(v), dt))

\* Vehicle::isOffTrack: the loop over the wheels from wheel i on (1 .. 4),
\* on a track whose points getClosestT and getPosition can read
RECURSIVE OffTrackLoop(_, _, _)
OffTrackLoop(i, tr, wheels) ==
    IF i > 4 THEN TRUE
    ELSE IF ~wheels[i].hasContact /\ Length3(wheels[i].lastContactPoint) < SCALE \div 100
    THEN OffTrackLoop(i + 1, tr, wheels)
    ELSE
        LET contactPoint2D == <<wheels[i].lastContactPoint[1], wheels[i].lastContactPoint[3]>>
            Near(trackPoint) ==
                Hypot(contactPoint2D[1] - trackPoint[1], contactPoint2D[2] - trackPoint[2])
                    <= TRACK_WIDTH \div 2
            Project(closestT) == Near(getPosition(tr, closestT))
        IN  IF Project(getClosestT(tr, contactPoint2D)) THEN FALSE
            ELSE OffTrackLoop(i + 1, tr, wheels)

\* isOffTrack as it would be if one considered wheel beyond the half width
\* were enough to be off the track
isOffTrackAnyWheelOff(tr, v) ==
    IF tr = NoTrack THEN FALSE
    ELSE \E i \in 1 .. 4 :
             /\ v.wheels[i].hasContact
                    \/ Length3(v.wheels[i].lastContactPoint) >= SCALE \div 100
             /\ OffTrackLoop(4, tr, [v.wheels EXCEPT ![4] = v.wheels[i]])
isOffTrack(tr, v) == IF tr = NoTrack THEN FALSE ELSE OffTrackLoop(1, tr, v.wheels)

(***************************************************************************)
(* The session API (sim.cpp): the pure parts of the handlers               *)
(***************************************************************************)
\* std::atan2(y, x), scaled radians
Atan2(y, x) ==
    IF x > 0 THEN Atan(DivS(y, x))
    ELSE IF x < 0 THEN (IF y >= 0 THEN Atan(DivS(y, x)) + PiS ELSE Atan(DivS(y, x)) - PiS)
    ELSE IF y > 0 THEN HalfPiS
    ELSE IF y < 0 THEN -HalfPiS
    ELSE 0

\* the chassis sim_add_vehicle's Vehicle constructor asks World for: spawned
\* 0.75 above startPos, yawed by atan2(startTangent.x, startTangent.y)
SpawnBody(startPos, startTangent) ==
    LET startAngle == Atan2(startTangent[1], startTangent[2])
    IN  NewBody(HalfExtents, VEHICLE_MASS,
                <<startPos[1], (3 * SCALE) \div 4, startPos[2]>>,
                YawQuat(startAngle))

\* const float substepDelta = 1.0f / 600.0f, and the substeps of a sim_step
SubstepDelta == <<1, 600>>
NumSubsteps == 10

\* the loop over ctx->vehicles of one substep: <<bodyObj, vehicleObj>> after it
RECURSIVE StepVehicles(_, _, _, _, _)
StepVehicles(i, list, bObjs, vObjs, dt) ==
    IF i > Len(list) THEN <<bObjs, vObjs>>
    ELSE
        LET Rest(v, after) ==
                IF Evaluated(after)
                THEN StepVehicles(i + 1, list,
                                  [bObjs EXCEPT ![v.body] = after[1]],
                                  [vObjs EXCEPT ![list[i]] = after[2]], dt)
                ELSE <<bObjs, vObjs>>
        IN  Rest(vObjs[list[i]], VehicleStep(bObjs[vObjs[list[i]].body], vObjs[list[i]], dt))

\* the substep loop as it would be with the vehicles stepped before World
RECURSIVE SubstepsVehiclesFirst(_, _, _, _, _)
SubstepsVehiclesFirst(i, held, list, bObjs, vObjs) ==
    IF i >= NumSubsteps THEN <<bObjs, vObjs>>
    ELSE
        LET Rest(after) ==
                IF Evaluated(after)
                THEN SubstepsVehiclesFirst(i + 1, held, list,
                                           stepSimulation(held, after[1], SubstepDelta),
                                           after[2])
                ELSE <<bObjs, vObjs>>
        IN  Rest(StepVehicles(1, list, bObjs, vObjs, SubstepDelta))

\* the substep loop of sim_step: <<bodyObj, vehicleObj>> after substeps i .. 9
RECURSIVE Substeps(_, _, _, _, _)
Substeps(i, held, list, bObjs, vObjs) ==
    IF i >= NumSubsteps THEN <<bObjs, vObjs>>
    ELSE
        LET Rest(after) ==
                IF Evaluated(after)
                THEN Substeps(i + 1, held, list, after[1], after[2])
                ELSE <<bObjs, vObjs>>
        IN  Rest(StepVehicles(1, list, stepSimulation(held, bObjs, SubstepDelta), vObjs,
                              SubstepDelta))

\* sim_get_observation: numWaypoints and waypointSpacing
NumWaypoints == 20
WaypointSpacing == SCALE \div 10

\* the loop over the waypoints as it would be if it asked for room for one
\* float, not two, before writing a pair
RECURSIVE WaypointWritesOneFree(_, _, _, _, _, _, _)
WaypointWritesOneFree(k, idx, writes, waypoints, b, max_floats, frame) ==
    IF k > Len(waypoints) THEN writes
    ELSE IF idx + 1 > max_floats THEN writes
    ELSE
        LET rel == V3Sub(waypoints[k], b.position)
        IN  WaypointWritesOneFree(k + 1, idx + 2,
                                  writes \o << <<idx, Dot3(rel, frame.right, QS)>>,
                                               <<idx + 1, Dot3(rel, frame.forward, QS)>> >>,
                                  waypoints, b, max_floats, frame)

\* the loop over the waypoints: the writes out_buffer[idx++] = value made, in
\* order, each <<index, value>>
RECURSIVE WaypointWrites(_, _, _, _, _, _, _)
WaypointWrites(k, idx, writes, waypoints, b, max_floats, frame) ==
    IF k > Len(waypoints) THEN writes
    ELSE IF idx + 2 > max_floats THEN writes
    ELSE
        LET rel == V3Sub(waypoints[k], b.position)
        IN  WaypointWrites(k + 1, idx + 2,
                           writes \o << <<idx, Dot3(rel, frame.right, QS)>>,
                                        <<idx + 1, Dot3(rel, frame.forward, QS)>> >>,
                           waypoints, b, max_floats, frame)

\* the vehicle frame: forward and right, unit vectors
VehicleFrame(b) ==
    [ forward |-> Normalize3(Rotate(b.orientation, <<0, 0, QS>>)),
      right |-> Normalize3(Rotate(b.orientation, <<QS, 0, 0>>)) ]

\* the velocity entries as they would be with the lateral velocity first
VelocityWritesLateralFirst(idx, b, max_floats, frame) ==
    IF idx + 3 <= max_floats
    THEN << <<idx, Dot3(b.velocity, frame.right, QS)>>,
            <<idx + 1, Dot3(b.velocity, frame.forward, QS)>>,
            <<idx + 2, b.angularVelocity[2]>> >>
    ELSE <<>>

\* the velocity entries as they would be if the code asked for room for one
\* float, not three, before writing them
VelocityWritesOneFree(idx, b, max_floats, frame) ==
    IF idx + 1 <= max_floats
    THEN << <<idx, Dot3(b.velocity, frame.forward, QS)>>,
            <<idx + 1, Dot3(b.velocity, frame.right, QS)>>,
            <<idx + 2, b.angularVelocity[2]>> >>
    ELSE <<>>

\* the three velocity entries, written when they fit after idx
VelocityWrites(idx, b, max_floats, frame) ==
    IF idx + 3 <= max_floats
    THEN << <<idx, Dot3(b.velocity, frame.forward, QS)>>,
            <<idx + 1, Dot3(b.velocity, frame.right, QS)>>,
            <<idx + 2, b.angularVelocity[2]>> >>
    ELSE <<>>

\* all writes of sim_get_observation for the given waypoints; every write
\* advances idx by one, so the value returned is their number
ObservationWrites(waypoints, b, max_floats) ==
    LET Both(first, frame) == first \o VelocityWrites(Len(first), b, max_floats, frame)
        Framed(frame) == Both(WaypointWrites(1, 0, <<>>, waypoints, b, max_floats, frame), frame)
    IN  Framed(VehicleFrame(b))

(***************************************************************************)
(* Inputs                                                                  *)
(***************************************************************************)
\* a point given in whole metres
Pt(x, y) == <<x * SCALE, y * SCALE>>

\* a Track object as loadPointsFromFile leaves it when the parse completes;
\* ok is what loadPointsFromFile returned (the object does not keep it)
LoadedTrack(pts) == [points |-> pts, numSegments |-> Len(pts) \div 2, ok |-> pts # <<>>]

\* a Track object as loadPointsFromFile leaves it when it returns early:
\* numSegments was never assigned and holds whatever the memory held
FailedTrack(pts, garbage) == [points |-> pts, numSegments |-> garbage, ok |-> FALSE]

\* the Track held is one whose load returned true
TrackLoaded == track # NoTrack /\ track.ok

\* control-point lists of closed curves: one, two and three segments
CurvePoints ==
    { <<Pt(0, 0), Pt(10, 0)>>,
      <<Pt(0, 0), Pt(20, 0), Pt(20, 20), Pt(0, 20)>>,
      <<Pt(0, 0), Pt(15, -5), Pt(30, 0), Pt(35, 15), Pt(15, 30), Pt(-5, 15)>> }

\* curve parameters, in quarters, from -MaxLaps to MaxLaps + 1 laps of the longest curve
MaxLaps == 1
TSamples == { q * (SCALE \div 4) : q \in -(12 * MaxLaps) .. 12 * (MaxLaps + 1) }

\* query points on a grid of GridStep metres
GridStep == 10
MaxGrid == 3
QueryPoints == { Pt(GridStep * i, GridStep * j) : i, j \in -MaxGrid .. MaxGrid }

\* arguments of getWaypoints: currentT in eighths over the same laps, the
\* count and the spacing of the waypoints
WaypointStarts == { q * (SCALE \div 8) : q \in -(24 * MaxLaps) .. 24 * (MaxLaps + 1) }
WaypointCounts == {0, 1, 3, NumWaypoints}
WaypointSpacings == { WaypointSpacing, (3 * SCALE) \div 4 }

(***************************************************************************)
(* The curve queries on their own: Init draws a loaded curve and one call  *)
(* of getPosition or getClosestT with its argument; the action makes it.   *)
(***************************************************************************)
NoCall == [op |-> "none", done |-> TRUE]

CurveCalls ==
    { [op |-> "getPosition", done |-> FALSE, t |-> t, value |-> Pt(0, 0)] : t \in TSamples }
    \cup { [op |-> "getClosestT", done |-> FALSE, point |-> p, value |-> 0] : p \in QueryPoints }
    \cup { [op |-> "getWaypoints", done |-> FALSE, currentT |-> t, numWaypoints |-> n,
            waypointSpacing |-> d, value |-> <<>>] :
                t \in WaypointStarts, n \in WaypointCounts, d \in WaypointSpacings }

InitCurve ==
    /\ track \in { LoadedTrack(pts) : pts \in CurvePoints }
    /\ vehicles = <<>>
    /\ vehicleObj = <<>>
    /\ bodies = <<>>
    /\ bodyObj = <<>>
    /\ status = "running"
    /\ ret \in CurveCalls
    /\ calls = [load |-> 1, add |-> 0, control |-> 0, step |-> 0]

\* values an out-of-bounds read of the points vector may produce
GarbagePoints == { Pt(0, 0), Pt(-1000, 1000) }

CallGetPosition ==
    /\ status = "running"
    /\ ret.op = "getPosition" /\ ~ret.done
    /\ IF PositionDefined(track, ret.t)
       THEN /\ ret' = [ret EXCEPT !.done = TRUE, !.value = getPosition(track, ret.t)]
            /\ status' = status
       ELSE \/ /\ status' = "crashed"
               /\ ret' = ret
            \/ /\ status' = status
               /\ \E g \in GarbagePoints :
                      ret' = [ret EXCEPT !.done = TRUE, !.value = g]
    /\ UNCHANGED <<track, vehicles, vehicleObj, bodies, bodyObj, calls>>

CallGetClosestT ==
    /\ status = "running"
    /\ ret.op = "getClosestT" /\ ~ret.done
    /\ ClosestDefined(track)
    /\ ret' = [ret EXCEPT !.done = TRUE, !.value = getClosestT(track, ret.point)]
    /\ UNCHANGED <<track, vehicles, vehicleObj, bodies, bodyObj, status, calls>>

\* Track::getWaypoints; with numSegments <= 0 the first wrapping loop never ends
CallGetWaypoints ==
    /\ status = "running"
    /\ ret.op = "getWaypoints" /\ ~ret.done
    /\ IF WrapTerminates(track)
       THEN /\ ret' = [ret EXCEPT !.done = TRUE,
                                  !.value = getWaypoints(track, ret.currentT, ret.numWaypoints,
                                                         ret.waypointSpacing)]
            /\ status' = status
       ELSE /\ ret' = ret
            /\ status' = "hung"
    /\ UNCHANGED <<track, vehicles, vehicleObj, bodies, bodyObj, calls>>

NextCurve ==
    \/ CallGetPosition
    \/ CallGetClosestT
    \/ CallGetWaypoints

SpecCurve == InitCurve /\ [][NextCurve]_vars

(***************************************************************************)
(* Claims about the curve                                                  *)
(***************************************************************************)
DistSq(p, q) == V2Dot(V2Sub(p, q), V2Sub(p, q))

\* C9: for all t, positive, zero or negative, getPosition(t) equals
\* getPosition(t + numSegments): every value getPosition returns (reading
\* only control points that exist) is the value at the parameter one lap later
C9_Periodic ==
    (ret.op = "getPosition" /\ ret.done /\ PositionDefined(track, ret.t))
        => /\ PositionDefined(track, ret.t + track.numSegments * SCALE)
           /\ ret.value = getPosition(track, ret.t + track.numSegments * SCALE)

\* C25: for every t, negative t included, getPosition selects the segment
\* floor(t) mod numSegments, a value in [0, numSegments), with the local
\* parameter t - floor(t) in [0, 1), and reads control points at valid
\* indices only.
C25_SegmentIsFloorMod ==
    (ret.op = "getPosition" /\ (ret.done \/ status = "crashed"))
        => /\ SegmentOf(track, ret.t) = (Floor(ret.t) \div SCALE) % track.numSegments
           /\ SegmentOf(track, ret.t) \in 0 .. track.numSegments - 1
           /\ ret.t - Floor(ret.t) \in 0 .. SCALE - 1
           /\ PositionDefined(track, ret.t)

\* C10: the parameter getClosestT returns is at least as close to the query
\* point as the curve is at each of the 11 seed parameters of every segment
C10_NoWorseThanSeeds ==
    (ret.op = "getClosestT" /\ ret.done)
        => \A seg \in 0 .. track.numSegments - 1 : \A i \in 0 .. NumCandidates - 1 :
               DistSq(getPosition(track, ret.value), ret.point)
                   <= DistSq(getPosition(track, seg * SCALE + Candidate(i)), ret.point)

\* C11: the parameter getClosestT returns is in [0, numSegments): at least 0
\* and less than numSegments
C11_InHalfOpenRange ==
    (ret.op = "getClosestT" /\ ret.done)
        => /\ ret.value >= 0
           /\ ret.value < track.numSegments * SCALE

\* the parameter of waypoint pair i of a getWaypoints call, wrapped into
\* [0, numSegments)
PairT(call, tr, i) ==
    (call.currentT + i * call.waypointSpacing) % (tr.numSegments * SCALE)

\* the z component of tangent x v for plane vectors: positive when v points
\* to the left of the tangent
LeftOf(tangent, v) == tangent[1] * v[2] - tangent[2] * v[1]

\* C12: getWaypoints returns 2 * count points; pair i is at indices 2i and
\* 2i + 1, its left point first, both at height 0, and the midpoint of the
\* pair is getPosition at currentT + i * spacing wrapped into [0, numSegments).
\* (Where the two positions getTangent subtracts are equal, glm::normalize
\* yields NaN and both points of the pair are NaN; with <<0, 0>> standing for
\* that normal the two points coincide and neither is to the left.)
C12_WaypointPairs ==
    (ret.op = "getWaypoints" /\ ret.done)
        => /\ Len(ret.value) = 2 * ret.numWaypoints
           /\ \A i \in 0 .. ret.numWaypoints - 1 :
                  /\ ret.value[2 * i + 1][2] = 0
                  /\ ret.value[2 * i + 2][2] = 0
                  /\ <<ret.value[2 * i + 1][1] + ret.value[2 * i + 2][1],
                       ret.value[2 * i + 1][3] + ret.value[2 * i + 2][3]>>
                         = V2Times(2, getPosition(track, PairT(ret, track, i)))
                  /\ LeftOf(getTangent(track, PairT(ret, track, i)),
                            <<ret.value[2 * i + 1][1] - ret.value[2 * i + 2][1],
                              ret.value[2 * i + 1][3] - ret.value[2 * i + 2][3]>>) > 0

(***************************************************************************)
(* Bodies in a PhysicsWorld, driven through the physics interface          *)
(***************************************************************************)
\* masses of the bodies added: kinematic (zero and negative) and dynamic
BodyMasses == {-1, 0, VEHICLE_MASS}

\* forces in N, points of application and time steps <<num, den>> in s
Forces == { <<600, 0, 0>>, <<0, 2400, -1200>> }
ForcePoints == { <<SCALE, 2 * SCALE, 0>> }
StepDeltas == { <<1, 600>>, <<1, 60>>, <<1, 1>> }

\* how many addBody calls, force applications and steps a behaviour makes
MaxBodies == 2
MaxForces == 2
MaxBodySteps == 2

NoBodyCalls == [add |-> 0, force |-> 0, step |-> 0]

InitBody ==
    /\ track = NoTrack
    /\ vehicles = <<>>
    /\ vehicleObj = <<>>
    /\ bodies = <<>>
    /\ bodyObj = <<>>
    /\ status = "running"
    /\ ret = NoCall
    /\ calls = NoBodyCalls

\* PhysicsWorld::addBody
CallAddBody(mass) ==
    /\ calls.add < MaxBodies
    /\ calls' = [calls EXCEPT !.add = @ + 1]
    /\ LET Added(body) ==
               /\ bodyObj' = Allocate(bodyObj, body,
                                      NewBody(HalfExtents, mass, <<0, SCALE, 0>>, IdentityQuat))
               /\ bodies' = Append(bodies, body)
               /\ ret' = [op |-> "addBody", body |-> body]
       IN  Added(FreshHandle(bodyObj))
    /\ UNCHANGED <<track, vehicles, vehicleObj, status>>

\* PhysicsWorld::removeBody as it would be if it dropped the newest body
\* of the list instead of the one found
CallRemoveNewestBody(body) ==
    /\ IF Contains(bodies, body)
       THEN /\ bodies' = SubSeq(bodies, 1, Len(bodies) - 1)
            /\ bodyObj' = Release(bodyObj, bodies[Len(bodies)])
       ELSE UNCHANGED <<bodies, bodyObj>>
    /\ ret' = [op |-> "removeBody", body |-> body, found |-> Contains(bodies, body)]
    /\ UNCHANGED <<track, vehicles, vehicleObj, status, calls>>

\* PhysicsWorld::removeBody with any pointer: erased from the list and
\* deleted if std::find meets it there, nothing otherwise
CallRemoveBody(body) ==
    /\ IF Contains(bodies, body)
       THEN /\ bodies' = EraseFirst(bodies, body)
            /\ bodyObj' = Release(bodyObj, body)
       ELSE UNCHANGED <<bodies, bodyObj>>
    /\ ret' = [op |-> "removeBody", body |-> body, found |-> Contains(bodies, body)]
    /\ UNCHANGED <<track, vehicles, vehicleObj, status, calls>>

\* PhysicsBody::applyForce on a live body
CallApplyForce(body, force) ==
    /\ body \in DOMAIN bodyObj
    /\ calls.force < MaxForces
    /\ calls' = [calls EXCEPT !.force = @ + 1]
    /\ bodyObj' = [bodyObj EXCEPT ![body] = applyForce(@, force)]
    /\ ret' = [op |-> "applyForce", body |-> body]
    /\ UNCHANGED <<track, vehicles, vehicleObj, bodies, status>>

\* PhysicsBody::applyForceAtPoint on a live body
CallApplyForceAtPoint(body, force, point) ==
    /\ body \in DOMAIN bodyObj
    /\ calls.force < MaxForces
    /\ calls' = [calls EXCEPT !.force = @ + 1]
    /\ bodyObj' = [bodyObj EXCEPT ![body] = applyForceAtPoint(@, force, point)]
    /\ ret' = [op |-> "applyForceAtPoint", body |-> body]
    /\ UNCHANGED <<track, vehicles, vehicleObj, bodies, status>>

\* PhysicsBody::step on a live body
CallStep(body, dt) ==
    /\ body \in DOMAIN bodyObj
    /\ calls.step < MaxBodySteps
    /\ calls' = [calls EXCEPT !.step = @ + 1]
    /\ bodyObj' = [bodyObj EXCEPT ![body] = BodyStep(@, dt)]
    /\ ret' = [op |-> "step", body |-> body]
    /\ UNCHANGED <<track, vehicles, vehicleObj, bodies, status>>

\* PhysicsWorld::stepSimulation
CallStepSimulation(dt) ==
    /\ calls.step < MaxBodySteps
    /\ calls' = [calls EXCEPT !.step = @ + 1]
    /\ bodyObj' = stepSimulation(bodies, bodyObj, dt)
    /\ ret' = [op |-> "stepSimulation"]
    /\ UNCHANGED <<track, vehicles, vehicleObj, bodies, status>>

NextBody ==
    \/ \E mass \in BodyMasses : CallAddBody(mass)
    \/ \E body \in NULL .. MaxBodies : CallRemoveBody(body)
    \/ \E body \in DOMAIN bodyObj : \E force \in Forces : CallApplyForce(body, force)
    \/ \E body \in DOMAIN bodyObj : \E force \in Forces : \E point \in ForcePoints :
           CallApplyForceAtPoint(body, force, point)
    \/ \E body \in DOMAIN bodyObj : \E dt \in StepDeltas : CallStep(body, dt)
    \/ \E dt \in StepDeltas : CallStepSimulation(dt)

SpecBody == InitBody /\ [][NextBody]_vars

(***************************************************************************)
(* Claims about bodies                                                     *)
(***************************************************************************)
\* C6: a body of mass 0 never changes position or velocity, whatever forces
\* are applied to it and whatever steps, of the body or of the world, are made
C6_MasslessStays ==
    [][\A body \in DOMAIN bodyObj \cap DOMAIN bodyObj' :
           bodyObj[body].mass = 0
               => /\ bodyObj'[body].mass = 0
                  /\ bodyObj'[body].position = bodyObj[body].position
                  /\ bodyObj'[body].velocity = bodyObj[body].velocity]_vars

\* a body of mass 0 that had a force applied and was then stepped
C6_Witness ==
    /\ calls = [add |-> 1, force |-> 2, step |-> 1]
    /\ ret.op \in {"step", "stepSimulation"}
    /\ \E body \in DOMAIN bodyObj : bodyObj[body].mass = 0

\* C7: after every PhysicsBody::step, and for every held body after every
\* stepSimulation, the accumulated force and torque are zero, whatever the
\* mass; and a step of a body on which nothing was applied since its last
\* step changes neither its velocity nor its angular velocity
C7_AccumulatorsCleared ==
    [][/\ ret'.op = "step" =>
              /\ bodyObj'[ret'.body].accumulatedForce = Zero3
              /\ bodyObj'[ret'.body].accumulatedTorque = Zero3
              /\ (bodyObj[ret'.body].accumulatedForce = Zero3
                      /\ bodyObj[ret'.body].accumulatedTorque = Zero3)
                     => /\ bodyObj'[ret'.body].velocity = bodyObj[ret'.body].velocity
                        /\ bodyObj'[ret'.body].angularVelocity
                               = bodyObj[ret'.body].angularVelocity
       /\ ret'.op = "stepSimulation" =>
              \A i \in 1 .. Len(bodies') :
                  /\ bodyObj'[bodies'[i]].accumulatedForce = Zero3
                  /\ bodyObj'[bodies'[i]].accumulatedTorque = Zero3]_vars

\* two steps of one body after two forces on it: a kinematic body with
\* its accumulators cleared, or a dynamic body that the first step set
\* moving and the second, with nothing applied, left at that velocity
C7_Witness ==
    /\ calls = [add |-> 1, force |-> 2, step |-> 2]
    /\ ret.op = "step"
    /\ bodyObj[ret.body].accumulatedForce = Zero3
    /\ bodyObj[ret.body].mass <= 0

C16_OrientationIsUnit ==
    \A h \in DOMAIN bodyObj :
        /\ QS - 1 <= QuatLength(bodyObj[h].orientation)
        /\ QuatLength(bodyObj[h].orientation) <= QS + 1

\* the second step of a body that torques have turned away from the
\* orientation it was created with
C16_Witness ==
    /\ ret.op \in {"step", "stepSimulation"}
    /\ calls.step = 2
    /\ \E h \in DOMAIN bodyObj :
           /\ bodyObj[h].mass > 0
           /\ bodyObj[h].angularVelocity # Zero3
           /\ bodyObj[h].orientation # IdentityQuat

(***************************************************************************)
(* The brake stage on its own: Init draws the angular velocity of a wheel,  *)
(* the brake input and the time step; the action applies the stage.        *)
(***************************************************************************)
\* wheel angular velocities in scaled rad/s: at rest, slower and faster than
\* what the full brake takes off in 1/600 s (8.163 rad/s) and in 1/60 s
WheelSpeeds ==
    { s * m : s \in {-1, 1},
              m \in {0, 1, 4 * SCALE, 8163, 8164, 20 * SCALE, 81633, 81634, 100 * SCALE} }

InitBrake ==
    /\ track = NoTrack
    /\ vehicles = <<>>
    /\ vehicleObj = <<>>
    /\ bodies = <<>>
    /\ bodyObj = <<>>
    /\ status = "running"
    /\ calls = [step |-> 0]
    /\ \E w \in WheelSpeeds : \E brake \in {0, 1, SCALE \div 2, SCALE} :
           \E dt \in {SubstepDelta, <<1, 60>>} :
               ret = [op |-> "brake", done |-> FALSE, angularVelocity |-> w,
                      brakeTorque |-> MulS(brake, MaxBrakeTorque), dt |-> dt, value |-> w]

CallApplyBrake ==
    /\ ~ret.done
    /\ ret' = [ret EXCEPT !.done = TRUE,
                          !.value = ApplyBrake(ret.angularVelocity, ret.brakeTorque, ret.dt)]
    /\ UNCHANGED <<track, vehicles, vehicleObj, bodies, bodyObj, status, calls>>

SpecBrake == InitBrake /\ [][CallApplyBrake]_vars

\* C21: the brake stage never reverses the sign of the angular velocity and
\* never increases its magnitude: when brakeTorque / inertia * dt is at least
\* |angularVelocity| the result is exactly 0, otherwise the magnitude is
\* reduced by that amount and the sign kept; with no brake it is unchanged.
C21_BrakeNeverReverses ==
    (ret.op = "brake" /\ ret.done)
        => LET w == ret.angularVelocity
               taken == TimesDt(OverWheelInertia(ret.brakeTorque), ret.dt)
           IN  /\ ret.value * Sign(w) >= 0
               /\ Abs(ret.value) <= Abs(w)
               /\ taken >= Abs(w) => ret.value = 0
               /\ taken < Abs(w) => ret.value = w - Sign(w) * taken
               /\ ret.brakeTorque = 0 => ret.value = w

\* a turning wheel that the brake stopped within the step
C21_Witness ==
    /\ ret.op = "brake" /\ ret.done
    /\ ret.angularVelocity # 0
    /\ ret.brakeTorque > 0
    /\ ret.value = 0

(***************************************************************************)
(* A vehicle on its own: Init draws a loaded track, the pose of the chassis *)
(* and the controls; the actions are Vehicle::step, the chassis reaching   *)
(* another pose, and Vehicle::isOffTrack.                                  *)
(***************************************************************************)
\* the square of CurvePoints, and a curve that turns back 5.66 m from the
\* world origin
VehicleTracks ==
    { <<Pt(0, 0), Pt(20, 0), Pt(20, 20), Pt(0, 20)>>,
      <<Pt(-24, -24), Pt(16, 16)>> }

\* chassis positions: the rear left wheel over the world origin at spawn
\* height, the same 3 m up, and 60 m away
ChassisPositions ==
    { <<1 * SCALE, (3 * SCALE) \div 4, 2 * SCALE>>,
      <<1 * SCALE, 3 * SCALE, 2 * SCALE>>,
      <<60 * SCALE, (3 * SCALE) \div 4, 60 * SCALE>> }

\* chassis orientations (w, x, y, z): level, rolled by 15 degrees (the wheels
\* of one side off the ground at spawn height), on its side, and on its roof
ChassisOrientations ==
    { <<QS, 0, 0, 0>>, <<9914, 0, 0, 1305>>, <<7071, 0, 0, 7071>>, <<0, 0, 0, QS>> }

\* steer, throttle and brake as the setters left them
VehicleControls == { <<0, 0, 0>>, <<SCALE \div 2, SCALE, 0>>, <<0, 0, SCALE>> }

MaxVehicleSteps == 2
MaxMoves == 1

\* calls.ever[i]: the wheel loop of some Vehicle::step so far reached the
\* assignment of lastContactPoint for wheel i
InitVehicle ==
    /\ track \in { LoadedTrack(pts) : pts \in VehicleTracks }
    /\ vehicles = <<1>>
    /\ \E c \in VehicleControls :
           vehicleObj = <<setBrake(setThrottle(setSteerAmount(NewVehicle(1), c[1]), c[2]), c[3])>>
    /\ bodies = <<1>>
    /\ \E pose \in ChassisPositions \X ChassisOrientations :
           bodyObj = <<NewBody(HalfExtents, VEHICLE_MASS, pose[1], pose[2])>>
    /\ status = "running"
    /\ ret = NoCall
    /\ calls = [step |-> 0, move |-> 0, ever |-> <<FALSE, FALSE, FALSE, FALSE>>]

\* the ray of wheel i from the chassis b reaches the ground within travel
RayReaches(b, i) ==
    LET Reaches(ray) == ~Below1e4(ray.denom) /\ ray.t >= 0 /\ ray.t <= RestLength
    IN  Reaches(SuspensionRay(b, i))

\* vehicle->step(SubstepDelta)
CallVehicleStep ==
    /\ status = "running" /\ ret.op # "isOffTrack"
    /\ calls.step < MaxVehicleSteps
    /\ LET Stepped(after) ==
               /\ bodyObj' = [bodyObj EXCEPT ![1] = after[1]]
               /\ vehicleObj' = [vehicleObj EXCEPT ![1] = after[2]]
       IN  Stepped(VehicleStep(bodyObj[1], vehicleObj[1], SubstepDelta))
    /\ calls' = [calls EXCEPT !.step = @ + 1,
                              !.ever = [i \in 1 .. 4 |-> @[i] \/ RayReaches(bodyObj[1], i)]]
    /\ ret' = [op |-> "Vehicle::step", done |-> TRUE]
    /\ UNCHANGED <<track, vehicles, bodies, status>>

\* the chassis at another pose: body->position and body->orientation as the
\* steps of World in between, or the owner of the body, left them
MoveChassis(pose) ==
    /\ status = "running" /\ ret.op # "isOffTrack"
    /\ calls.move < MaxMoves
    /\ <<bodyObj[1].position, bodyObj[1].orientation>> # pose
    /\ bodyObj' = [bodyObj EXCEPT ![1].position = pose[1], ![1].orientation = pose[2]]
    /\ calls' = [calls EXCEPT !.move = @ + 1]
    /\ ret' = [op |-> "move", done |-> TRUE]
    /\ UNCHANGED <<track, vehicles, vehicleObj, bodies, status>>

\* vehicle->isOffTrack(track)
CallIsOffTrack ==
    /\ status = "running" /\ ret.op # "isOffTrack"
    /\ ret' = [op |-> "isOffTrack", done |-> TRUE, value |-> isOffTrack(track, vehicleObj[1])]
    /\ UNCHANGED <<track, vehicles, vehicleObj, bodies, bodyObj, status, calls>>

NextVehicle ==
    \/ CallVehicleStep
    \/ \E pose \in ChassisPositions \X ChassisOrientations : MoveChassis(pose)
    \/ CallIsOffTrack

SpecVehicle == InitVehicle /\ [][NextVehicle]_vars

(***************************************************************************)
(* Claims about a vehicle on its own                                       *)
(***************************************************************************)
\* the horizontal distance from lastContactPoint of the wheel w to the point
\* of the track at the parameter getClosestT gives for it
CentrelineDistance(tr, w) ==
    LET p == <<w.lastContactPoint[1], w.lastContactPoint[3]>>
        To(q) == Hypot(p[1] - q[1], p[2] - q[2])
        At(closestT) == To(getPosition(tr, closestT))
    IN  At(getClosestT(tr, p))

\* the wheels isOffTrack looks at: in contact, or with a contact point
\* that is not the world origin
Considered(w) == w.hasContact \/ Length3(w.lastContactPoint) >= SCALE \div 100

\* C13: on a loaded track isOffTrack returns false exactly when some
\* considered wheel's lastContactPoint is within half the track width (6) of
\* the track point at its closest parameter; it returns true when every
\* considered wheel is farther, and when no wheel has ever had contact.
C13_OnTrackIffSomeWheelNear ==
    (ret.op = "isOffTrack" /\ TrackLoaded)
        => /\ (ret.value = FALSE)
                  <=> \E i \in 1 .. 4 :
                          /\ Considered(vehicleObj[1].wheels[i])
                          /\ CentrelineDistance(track, vehicleObj[1].wheels[i])
                                 <= 6 * SCALE
           /\ (\A i \in 1 .. 4 : ~calls.ever[i]) => ret.value = TRUE

\* isOffTrack returned false for a vehicle with a wheel within the half
\* width and another, also considered, beyond it
C13_Witness ==
    /\ ret.op = "isOffTrack"
    /\ ret.value = FALSE
    /\ \E i, j \in 1 .. 4 :
           /\ Considered(vehicleObj[1].wheels[i])
           /\ CentrelineDistance(track, vehicleObj[1].wheels[i]) <= 6 * SCALE
           /\ Considered(vehicleObj[1].wheels[j])
           /\ CentrelineDistance(track, vehicleObj[1].wheels[j]) > 6 * SCALE

\* C14: isOffTrack takes into account every wheel that registered ground
\* contact in some Vehicle::step so far, wherever that contact point lies
\* and whether or not the wheel is in contact now, and leaves out only the
\* wheels that never had contact: its value is the one these wheels give.
C14_EveryContactedWheelCounts ==
    (ret.op = "isOffTrack" /\ TrackLoaded)
        => (ret.value = FALSE)
               <=> \E i \in 1 .. 4 :
                       /\ calls.ever[i]
                       /\ CentrelineDistance(track, vehicleObj[1].wheels[i]) <= 6 * SCALE

\* C19: after Vehicle::step every wheel whose suspension ray did not reach
\* the ground within travel in that step (axis nearly parallel to the
\* ground, t < 0, or t > restLength) has hasContact false, and hasContact is
\* true only for a wheel whose ray hit with 0 <= t <= restLength in that step.
C19_ContactIffRayReaches ==
    [][ret'.op = "Vehicle::step" =>
           \A i \in 1 .. 4 :
               vehicleObj'[1].wheels[i].hasContact <=> RayReaches(bodyObj[1], i)]_vars

\* the chassis b after applyForceAtPoint for the wheels from i on whose ray
\* reaches the ground, and for no other wheel
RECURSIVE ContactForces(_, _, _, _)
ContactForces(i, b, wheels, dt) ==
    IF i > 4 THEN b
    ELSE IF RayReaches(b, i)
    THEN LET Next4(after) == IF Evaluated(after) THEN ContactForces(i + 1, after, wheels, dt)
                             ELSE b
         IN  Next4(WheelContact(b, wheels[i], SuspensionRay(b, i), dt)[1])
    ELSE ContactForces(i + 1, b, wheels, dt)

\* C20: a Vehicle::step applies no force to the chassis at a wheel that has
\* no ground contact in it and leaves that wheel's compression,
\* angularVelocity, rollAngle and lastContactPoint as they were; the forces
\* applied at a point are those of the wheels in contact, one each (the
\* chassis is left as these and the drag leave it).
C20_AirborneWheelUntouched ==
    [][ret'.op = "Vehicle::step" =>
           /\ \A i \in 1 .. 4 :
                  ~RayReaches(bodyObj[1], i) =>
                      /\ vehicleObj'[1].wheels[i].compression
                             = vehicleObj[1].wheels[i].compression
                      /\ vehicleObj'[1].wheels[i].angularVelocity
                             = vehicleObj[1].wheels[i].angularVelocity
                      /\ vehicleObj'[1].wheels[i].rollAngle
                             = vehicleObj[1].wheels[i].rollAngle
                      /\ vehicleObj'[1].wheels[i].lastContactPoint
                             = vehicleObj[1].wheels[i].lastContactPoint
           /\ (\A i \in 1 .. 4 : ~RayReaches(bodyObj[1], i)) =>
                  /\ bodyObj'[1].accumulatedTorque = bodyObj[1].accumulatedTorque
                  /\ bodyObj'[1].accumulatedForce
                         = V3Add(bodyObj[1].accumulatedForce, Drag(bodyObj[1].velocity))
           /\ bodyObj'[1] = applyForce(ContactForces(1, bodyObj[1],
                                                     PrepareWheels(vehicleObj[1]),
                                                     SubstepDelta),
                                       Drag(bodyObj[1].velocity))]_vars

\* the second step of a chassis rolled so that some wheels reach the ground
\* and a driven wheel, spinning since the first step, does not
C20_Witness ==
    /\ ret.op = "Vehicle::step"
    /\ calls.step = 2
    /\ \E i, j \in 1 .. 4 :
           /\ RayReaches(bodyObj[1], i)
           /\ ~RayReaches(bodyObj[1], j)
           /\ ~vehicleObj[1].wheels[j].hasContact
           /\ vehicleObj[1].wheels[j].driveTorque # 0
           /\ vehicleObj[1].wheels[j].angularVelocity # 0

\* C23: in every Vehicle::step the antiRollForce values of the two wheels of
\* an axle (wheels 0/1 and 2/3 of the program, 1/2 and 3/4 here) are opposite
\* and of magnitude |leftCompression - rightCompression| * stiffness, taken
\* from the compressions the step found, before it updates any of them.
C23_AntiRollOpposite ==
    [][ret'.op = "Vehicle::step" =>
           \A axle \in 0 .. 1 :
               LET right == axle * 2 + 1
                   left == axle * 2 + 2
               IN  /\ vehicleObj'[1].wheels[left].antiRollForce
                          = -vehicleObj'[1].wheels[right].antiRollForce
                   /\ Abs(vehicleObj'[1].wheels[left].antiRollForce)
                          = Abs(MulS(vehicleObj[1].wheels[left].compression
                                         - vehicleObj[1].wheels[right].compression,
                                     ANTI_ROLL_BAR_STIFFNESS))]_vars

\* a second step of a vehicle whose first step compressed the two sides
\* differently, and which changes these compressions again
C23_Witness ==
    /\ ret.op = "Vehicle::step"
    /\ calls.step = 2
    /\ vehicleObj[1].wheels[1].antiRollForce # 0
    /\ Abs(vehicleObj[1].wheels[1].antiRollForce)
           # Abs(MulS(vehicleObj[1].wheels[2].compression - vehicleObj[1].wheels[1].compression,
                      ANTI_ROLL_BAR_STIFFNESS))

\* C24: the anti-roll force resists differential compression: on each axle
\* the wheel that the step found more compressed gets an antiRollForce >= 0
\* and the less compressed one an antiRollForce <= 0.
C24_AntiRollResists ==
    [][ret'.op = "Vehicle::step" =>
           \A axle \in 0 .. 1 : \A more, less \in {axle * 2 + 1, axle * 2 + 2} :
               vehicleObj[1].wheels[more].compression > vehicleObj[1].wheels[less].compression
                   => /\ vehicleObj'[1].wheels[more].antiRollForce >= 0
                      /\ vehicleObj'[1].wheels[less].antiRollForce <= 0]_vars

(***************************************************************************)
(* A session driven through the C API (sim.cpp)                            *)
(***************************************************************************)
\* track files: what loadPointsFromFile meets in each.  "missing": the file
\* does not open; "malformed": the parse returns false after the points
\* listed; "badnumber": std::stof throws on a number; "json": the parse
\* reaches the end with the points listed
TrackFiles ==
    { [kind |-> "missing", points |-> <<>>],
      [kind |-> "malformed", points |-> <<Pt(0, 0), Pt(10, 0), Pt(10, 10)>>],
      [kind |-> "badnumber", points |-> <<>>],
      [kind |-> "json", points |-> <<>>],
      [kind |-> "json", points |-> <<Pt(5, 5)>>],
      [kind |-> "json", points |-> <<Pt(0, 0), Pt(10, 0)>>],
      [kind |-> "json", points |-> <<Pt(0, 0), Pt(20, 0), Pt(20, 20), Pt(0, 20)>>] }

\* values the never-assigned int numSegments may hold
GarbageInts == {0, 2}

\* spawnT arguments
SpawnTs == {0, -((3 * SCALE) \div 2)}

\* (steer, throttle, brake) arguments, each below its range in one and
\* above it in the other
ControlInputs ==
    { <<-2 * SCALE, 3 * SCALE, -SCALE>>,
      <<3 * SCALE, -(SCALE \div 2), 2 * SCALE>> }

\* max_floats arguments
BufferSizes == {0, 1, 43, 82, 83, 85}

\* how many sim_load_track, sim_add_vehicle, sim_set_vehicle_control and
\* sim_step calls a session makes
MaxLoads == 2
MaxVehicles == 1
MaxControls == 1
MaxSteps == 1

NoCalls == [load |-> 0, add |-> 0, control |-> 0, step |-> 0]

\* the calls that only read the session
Queries ==
    {"sim_get_track_length", "sim_get_observation",
     "sim_get_vehicle_track_position", "sim_is_vehicle_off_track"}

\* A behaviour follows a session up to its first query.  A query changes
\* nothing but ret, so the calls after it do what they do from the state
\* before it, and every reachable session state is queried.
Open == status = "running" /\ ret.op \notin Queries

Init ==
    /\ track = NoTrack
    /\ vehicles = <<>>
    /\ vehicleObj = <<>>
    /\ bodies = <<>>
    /\ bodyObj = <<>>
    /\ status = "running"
    /\ ret = NoCall
    /\ calls = NoCalls

\* Track::Track(path): the object loadPointsFromFile leaves
NewTrack(file, garbage) ==
    IF file.kind = "json" THEN LoadedTrack(file.points)
    ELSE FailedTrack(file.points, garbage)

\* sim_load_track: delete the old Track, construct a new one whatever the
\* load returns.  An exception of std::stof leaves through the C function
sim_load_track(file) ==
    /\ Open
    /\ calls.load < MaxLoads
    /\ calls' = [calls EXCEPT !.load = @ + 1]
    /\ ret' = [op |-> "sim_load_track", file |-> file]
    /\ IF file.kind = "badnumber"
       THEN /\ status' = "crashed"
            /\ track' = track
       ELSE /\ status' = status
            /\ IF file.kind = "json"
               THEN track' = NewTrack(file, 0)
               ELSE \E garbage \in GarbageInts : track' = NewTrack(file, garbage)
    /\ UNCHANGED <<vehicles, vehicleObj, bodies, bodyObj>>

\* new Vehicle(world, pose) and ctx->vehicles.push_back(vehicle)
Spawn(startPos, startTangent, spawnT) ==
    LET body == FreshHandle(bodyObj)
        vehicle == Len(vehicleObj) + 1
    IN  /\ bodyObj' = Allocate(bodyObj, body, SpawnBody(startPos, startTangent))
        /\ bodies' = Append(bodies, body)
        /\ vehicleObj' = Append(vehicleObj, NewVehicle(body))
        /\ vehicles' = Append(vehicles, vehicle)
        /\ ret' = [op |-> "sim_add_vehicle", spawnT |-> spawnT, value |-> vehicle]
        /\ status' = status

\* sim_add_vehicle once ctx->track is known not to be null.  getPosition and
\* getTangent read the points without a check: outside the vector the read
\* crashes or yields what the memory holds
SpawnOnTrack(spawnT) ==
    IF PositionDefined(track, spawnT) /\ PositionDefined(track, spawnT + TangentDelta)
    THEN Spawn(getPosition(track, spawnT), getTangent(track, spawnT), spawnT)
    ELSE \/ /\ status' = "crashed"
            /\ ret' = [op |-> "sim_add_vehicle", spawnT |-> spawnT, value |-> NULL]
            /\ UNCHANGED <<vehicles, vehicleObj, bodies, bodyObj>>
         \/ /\ track.numSegments # 0
            /\ \E g \in GarbagePoints : Spawn(g, <<0, 0>>, spawnT)

\* sim_add_vehicle as it would be without the test of ctx->track: the call
\* on a null track dereferences it
sim_add_vehicle_unchecked(spawnT) ==
    /\ Open
    /\ calls.add < MaxVehicles
    /\ calls' = [calls EXCEPT !.add = @ + 1]
    /\ track' = track
    /\ IF track = NoTrack
       THEN /\ status' = "crashed"
            /\ ret' = [op |-> "sim_add_vehicle", spawnT |-> spawnT, value |-> NULL]
            /\ UNCHANGED <<vehicles, vehicleObj, bodies, bodyObj>>
       ELSE SpawnOnTrack(spawnT)

\* sim_add_vehicle
sim_add_vehicle(spawnT) ==
    /\ Open
    /\ calls.add < MaxVehicles
    /\ calls' = [calls EXCEPT !.add = @ + 1]
    /\ track' = track
    /\ IF track = NoTrack
       THEN /\ ret' = [op |-> "sim_add_vehicle", spawnT |-> spawnT, value |-> NULL]
            /\ UNCHANGED <<vehicles, vehicleObj, bodies, bodyObj, status>>
       ELSE SpawnOnTrack(spawnT)

\* sim_remove_vehicle as it would be if it deleted the Vehicle:
\* Vehicle::~Vehicle has World remove the chassis, and the caller still holds
\* the handle
sim_remove_vehicle_deleting(vehicle) ==
    /\ Open
    /\ vehicle \in DOMAIN vehicleObj
    /\ vehicles' = EraseFirst(vehicles, vehicle)
    /\ bodies' = EraseFirst(bodies, vehicleObj[vehicle].body)
    /\ bodyObj' = Release(bodyObj, vehicleObj[vehicle].body)
    /\ ret' = [op |-> "sim_remove_vehicle", vehicle |-> vehicle]
    /\ UNCHANGED <<track, vehicleObj, status, calls>>

\* sim_remove_vehicle: the handle is erased from ctx->vehicles if it is there;
\* the Vehicle object and its chassis are left as they are
sim_remove_vehicle(vehicle) ==
    /\ Open
    /\ vehicle \in DOMAIN vehicleObj
    /\ vehicles' = EraseFirst(vehicles, vehicle)
    /\ ret' = [op |-> "sim_remove_vehicle", vehicle |-> vehicle]
    /\ UNCHANGED <<track, vehicleObj, bodies, bodyObj, status, calls>>

\* sim_set_vehicle_control: the three setters, in this order
sim_set_vehicle_control(vehicle, steer, throttle, brake) ==
    /\ Open
    /\ vehicle \in DOMAIN vehicleObj
    /\ calls.control < MaxControls
    /\ calls' = [calls EXCEPT !.control = @ + 1]
    /\ vehicleObj' = [vehicleObj EXCEPT
                         ![vehicle] = setBrake(setThrottle(setSteerAmount(@, steer), throttle), brake)]
    /\ ret' = [op |-> "sim_set_vehicle_control", vehicle |-> vehicle,
               steer |-> steer, throttle |-> throttle, brake |-> brake]
    /\ UNCHANGED <<track, vehicles, bodies, bodyObj, status>>

\* sim_step: ten substeps of World and of every vehicle in ctx->vehicles
sim_step ==
    /\ Open
    /\ calls.step < MaxSteps
    /\ calls' = [calls EXCEPT !.step = @ + 1]
    /\ LET Stepped(after) == bodyObj' = after[1] /\ vehicleObj' = after[2]
       IN  Stepped(Substeps(0, bodies, vehicles, bodyObj, vehicleObj))
    /\ ret' = [op |-> "sim_step"]
    /\ UNCHANGED <<track, vehicles, bodies, status>>

\* sim_get_track_length: the int field of the Track, whatever it holds
sim_get_track_length ==
    /\ Open
    /\ ret' = [op |-> "sim_get_track_length",
               value |-> IF track = NoTrack THEN 0 ELSE track.numSegments]
    /\ UNCHANGED <<track, vehicles, vehicleObj, bodies, bodyObj, status, calls>>

\* sim_get_vehicle_track_position: getClosestT of the chassis position;
\* a read outside the points crashes or yields what the memory holds
sim_get_vehicle_track_position(vehicle) ==
    /\ Open
    /\ vehicle \in DOMAIN vehicleObj
    /\ LET Value(value) ==
               ret' = [op |-> "sim_get_vehicle_track_position", vehicle |-> vehicle,
                       value |-> value]
           Locate(b) ==
               IF track = NoTrack THEN Value(0) /\ status' = status
               ELSE IF ~ClosestDefined(track)
               THEN \/ Value(0) /\ status' = "crashed"
                    \/ \E g \in GarbageInts : Value(g * SCALE) /\ status' = status
               ELSE Value(getClosestT(track, <<b.position[1], b.position[3]>>))
                    /\ status' = status
       IN  Locate(bodyObj[vehicleObj[vehicle].body])
    /\ UNCHANGED <<track, vehicles, vehicleObj, bodies, bodyObj, calls>>

\* the reads of the points isOffTrack makes for the wheels it looks at are
\* inside the vector
OffTrackDefined(tr, v) ==
    \A i \in 1 .. 4 :
        (v.wheels[i].hasContact \/ Length3(v.wheels[i].lastContactPoint) >= SCALE \div 100)
            => /\ ClosestDefined(tr)
               /\ PositionDefined(tr, getClosestT(tr, <<v.wheels[i].lastContactPoint[1],
                                                        v.wheels[i].lastContactPoint[3]>>))

\* sim_is_vehicle_off_track: vehicle->isOffTrack(ctx->track) ? 1 : 0
sim_is_vehicle_off_track(vehicle) ==
    /\ Open
    /\ vehicle \in DOMAIN vehicleObj
    /\ LET Value(value) ==
               ret' = [op |-> "sim_is_vehicle_off_track", vehicle |-> vehicle,
                       value |-> value]
       IN  IF track = NoTrack \/ OffTrackDefined(track, vehicleObj[vehicle])
           THEN /\ Value(IF isOffTrack(track, vehicleObj[vehicle]) THEN 1 ELSE 0)
                /\ status' = status
           ELSE \/ Value(0) /\ status' = "crashed"
                \/ \E g \in {0, 1} : Value(g) /\ status' = status
    /\ UNCHANGED <<track, vehicles, vehicleObj, bodies, bodyObj, calls>>

\* the parameters getWaypoints asks getPosition and getNormal for
WaypointTs(tr, currentT) ==
    { WrapT(currentT + i * WaypointSpacing, tr.numSegments * SCALE) : i \in 0 .. NumWaypoints - 1 }

\* every read of the points made for these waypoints is inside the vector
WaypointsDefined(tr, currentT) ==
    \A t \in WaypointTs(tr, currentT) :
        PositionDefined(tr, t) /\ PositionDefined(tr, t + TangentDelta)

\* 2 * NumWaypoints waypoints read from memory outside the points
RECURSIVE GarbageWaypoints(_, _)
GarbageWaypoints(n, g) ==
    IF n = 0 THEN <<>> ELSE GarbageWaypoints(n - 1, g) \o <<Lift(g), Lift(g)>>

\* idx after the writes: one past the index of the last (idx++ on every write)
IndexAfter(writes) == IF writes = <<>> THEN 0 ELSE writes[Len(writes)][1] + 1

Returned(vehicle, max_floats, writes) ==
    [op |-> "sim_get_observation", vehicle |-> vehicle, max_floats |-> max_floats,
     value |-> IndexAfter(writes), writes |-> writes]

\* sim_get_observation with a buffer of any of the sizes; writes lists the
\* stores out_buffer[index] = value it makes
sim_get_observation(vehicle) ==
    /\ Open
    /\ vehicle \in DOMAIN vehicleObj
    /\ LET Garbage(b, max_floats) ==
               \/ /\ status' = "crashed"
                  /\ ret' = Returned(vehicle, max_floats, <<>>)
               \/ /\ status' = status
                  /\ \E g \in GarbagePoints :
                         ret' = Returned(vehicle, max_floats,
                                         ObservationWrites(GarbageWaypoints(NumWaypoints, g),
                                                           b, max_floats))
           Write(b, currentT, waypoints) ==
               \E max_floats \in BufferSizes :
                   IF max_floats <= 0 \/ track = NoTrack
                   THEN ret' = Returned(vehicle, max_floats, <<>>) /\ status' = status
                   ELSE IF ~ClosestDefined(track) THEN Garbage(b, max_floats)
                   ELSE IF ~WrapTerminates(track)
                   THEN ret' = Returned(vehicle, max_floats, <<>>) /\ status' = "hung"
                   ELSE IF ~WaypointsDefined(track, currentT) THEN Garbage(b, max_floats)
                   ELSE /\ status' = status
                        /\ ret' = Returned(vehicle, max_floats,
                                           ObservationWrites(waypoints, b, max_floats))
           Ahead(b, currentT) ==
               Write(b, currentT, getWaypoints(track, currentT, NumWaypoints, WaypointSpacing))
           Locate(b) == Ahead(b, getClosestT(track, <<b.position[1], b.position[3]>>))
       IN  Locate(bodyObj[vehicleObj[vehicle].body])
    /\ UNCHANGED <<track, vehicles, vehicleObj, bodies, bodyObj, calls>>

Next ==
    \/ \E file \in TrackFiles : sim_load_track(file)
    \/ \E spawnT \in SpawnTs : sim_add_vehicle(spawnT)
    \/ \E vehicle \in DOMAIN vehicleObj : sim_remove_vehicle(vehicle)
    \/ \E vehicle \in DOMAIN vehicleObj : \E c \in ControlInputs :
           sim_set_vehicle_control(vehicle, c[1], c[2], c[3])
    \/ sim_step
    \/ sim_get_track_length
    \/ \E vehicle \in DOMAIN vehicleObj : sim_get_observation(vehicle)
    \/ \E vehicle \in DOMAIN vehicleObj : sim_get_vehicle_track_position(vehicle)
    \/ \E vehicle \in DOMAIN vehicleObj : sim_is_vehicle_off_track(vehicle)

Spec == Init /\ [][Next]_vars

(***************************************************************************)
(* Claims about a session                                                  *)
(***************************************************************************)

\* the session holds a Track whose load returned false
LoadFailed == track # NoTrack /\ ~track.ok

\* a sim_get_observation call that has returned
Observed == ret.op = "sim_get_observation" /\ status = "running"

\* the values of the last three writes
LastThree(writes) ==
    <<writes[Len(writes) - 2][2], writes[Len(writes) - 1][2], writes[Len(writes)][2]>>

\* (dot(velocity, forward), dot(velocity, right), angularVelocity.y) of a chassis
ChassisRates(b) ==
    <<Dot3(b.velocity, VehicleFrame(b).forward, QS),
      Dot3(b.velocity, VehicleFrame(b).right, QS),
      b.angularVelocity[2]>>

\* C1, as stated: sim_get_observation with max_floats = 43 on a session with
\* a loaded curve returns exactly 43, and the last 3 floats written are
\* (dot(velocity, forward), dot(velocity, right), angularVelocity.y) of the
\* chassis
C1_Returns43 ==
    (Observed /\ TrackLoaded /\ ret.max_floats = 43)
        => /\ ret.value = 43
           /\ LastThree(ret.writes) = ChassisRates(bodyObj[vehicleObj[ret.vehicle].body])

\* C1, amended: the observation is 2 floats for each of the 2 * 20 waypoints
\* and then 3.  A call with max_floats = 83 on a session with a loaded curve
\* that returns, returns exactly 83 and the last 3 floats written are
\* (dot(velocity, forward), dot(velocity, right), angularVelocity.y) of the
\* chassis; a call with max_floats = 43 that returns, returns 42, all of them
\* waypoint floats
C1_Returns83 ==
    (Observed /\ TrackLoaded)
        => /\ ret.max_floats = 4 * NumWaypoints + 3
               => /\ ret.value = 4 * NumWaypoints + 3
                  /\ LastThree(ret.writes)
                         = ChassisRates(bodyObj[vehicleObj[ret.vehicle].body])
           /\ ret.max_floats = 43
               => /\ ret.value = 42
                  /\ \A i \in 1 .. Len(ret.writes) : ret.writes[i][1] < 4 * NumWaypoints

\* a full observation of a vehicle that a sim_step has set moving
C1_Witness ==
    /\ Observed /\ TrackLoaded
    /\ ret.max_floats = 83 /\ ret.value = 83
    /\ calls.step > 0
    /\ LastThree(ret.writes)[1] # LastThree(ret.writes)[2]

\* C2: for max_floats > 0, sim_get_observation writes at no index >=
\* max_floats, returns the number of floats it wrote, which is <= max_floats,
\* and writes the waypoint floats only in whole (lateral, longitudinal) pairs
C2_WritesInBuffer ==
    (ret.op = "sim_get_observation" /\ ret.max_floats > 0)
        => /\ \A i \in 1 .. Len(ret.writes) :
                  ret.writes[i][1] >= 0 /\ ret.writes[i][1] < ret.max_floats
           /\ ret.value = Len(ret.writes)
           /\ ret.value <= ret.max_floats
           /\ Cardinality({ i \in 1 .. Len(ret.writes) :
                                ret.writes[i][1] < 4 * NumWaypoints }) % 2 = 0

\* a buffer that ends in the middle of a pair: the pair is not written
C2_Witness ==
    /\ Observed
    /\ ret.max_floats = 43
    /\ Len(ret.writes) = 42

\* C3: World holds as many bodies as the session has vehicles (a removed
\* vehicle is destroyed and its chassis is no longer held or integrated)
C3_BodiesMatchVehicles == Len(bodies) = Len(vehicles)

\* C4: after a load that failed the session behaves as with no track:
\* sim_add_vehicle returns null and creates nothing, sim_get_track_length
\* and sim_get_observation return 0, and no call crashes or hangs
C4_FailedLoadIsNoTrack ==
    LoadFailed
        => /\ status = "running"
           /\ ret.op = "sim_add_vehicle" => ret.value = NULL
           /\ ret.op = "sim_get_track_length" => ret.value = 0
           /\ ret.op = "sim_get_observation" => ret.value = 0

\* C5: sim_add_vehicle on a session with no track returns null and leaves
\* the vehicle list, World and the rest of the session as they were
C5_NoTrackNoVehicle ==
    [][(track = NoTrack /\ ret'.op = "sim_add_vehicle" /\ calls'.add = calls.add + 1)
           => /\ ret'.value = NULL
              /\ UNCHANGED <<track, vehicles, vehicleObj, bodies, bodyObj, status>>]_vars

\* sim_add_vehicle has returned null on a session with no track
C5_Witness ==
    /\ track = NoTrack
    /\ status = "running"
    /\ ret.op = "sim_add_vehicle" /\ ret.value = NULL
    /\ calls.add = 1

\* C8: every Vehicle has steerAmount in [-1, 1], throttle in [0, 1] and
\* brake in [0, 1], and each setter, with any argument, changes that input
\* of it and nothing else
C8_ControlsClamped ==
    \A vehicle \in DOMAIN vehicleObj :
        /\ vehicleObj[vehicle].steerAmount >= -SCALE /\ vehicleObj[vehicle].steerAmount <= SCALE
        /\ vehicleObj[vehicle].throttle >= 0 /\ vehicleObj[vehicle].throttle <= SCALE
        /\ vehicleObj[vehicle].brake >= 0 /\ vehicleObj[vehicle].brake <= SCALE
        /\ \A c \in ControlInputs :
               /\ setSteerAmount(vehicleObj[vehicle], c[1])
                      = [vehicleObj[vehicle] EXCEPT
                            !.steerAmount = setSteerAmount(vehicleObj[vehicle], c[1]).steerAmount]
               /\ setThrottle(vehicleObj[vehicle], c[2])
                      = [vehicleObj[vehicle] EXCEPT
                            !.throttle = setThrottle(vehicleObj[vehicle], c[2]).throttle]
               /\ setBrake(vehicleObj[vehicle], c[3])
                      = [vehicleObj[vehicle] EXCEPT
                            !.brake = setBrake(vehicleObj[vehicle], c[3]).brake]

\* a vehicle whose controls were set with every argument out of range
C8_Witness ==
    /\ ret.op = "sim_set_vehicle_control"
    /\ ret.steer < -SCALE /\ ret.throttle > SCALE /\ ret.brake < 0
    /\ vehicleObj[ret.vehicle].steerAmount = -SCALE
    /\ vehicleObj[ret.vehicle].throttle = SCALE
    /\ vehicleObj[ret.vehicle].brake = 0

\* C17: in every state the calls of the API reach, each Vehicle that can
\* still be stepped or queried refers to a chassis World holds: no call
\* dereferences a body after World removed it.
C17_ChassisHeldByWorld ==
    \A vehicle \in DOMAIN vehicleObj :
        /\ Contains(bodies, vehicleObj[vehicle].body)
        /\ vehicleObj[vehicle].body \in DOMAIN bodyObj

\* a query of a vehicle after sim_remove_vehicle took it out of the session
C17_Witness ==
    /\ ret.op \in {"sim_get_observation", "sim_get_vehicle_track_position",
                   "sim_is_vehicle_off_track"}
    /\ status = "running"
    /\ ~Contains(vehicles, ret.vehicle)
    /\ Contains(bodies, vehicleObj[ret.vehicle].body)

\* C18: the core is deterministic: the same call made from the same
\* session state leaves the same state and returns the same value, so that
\* two sessions driven by the same calls stay identical.  Stated of what a
\* call can leave behind: whether it returns, and the Track it installs.
C18_SameCallSameOutcome ==
    /\ \A file \in TrackFiles : \A g \in GarbageInts :
           ENABLED (sim_load_track(file) /\ track' = NewTrack(file, g))
               => ~ENABLED (sim_load_track(file) /\ track' # NewTrack(file, g))
    /\ \A spawnT \in SpawnTs : \A outcome \in {"running", "crashed", "hung"} :
           ENABLED (sim_add_vehicle(spawnT) /\ status' = outcome)
               => ~ENABLED (sim_add_vehicle(spawnT) /\ status' # outcome)
    /\ \A vehicle \in DOMAIN vehicleObj : \A outcome \in {"running", "crashed", "hung"} :
           /\ ENABLED (sim_get_observation(vehicle) /\ status' = outcome)
                  => ~ENABLED (sim_get_observation(vehicle) /\ status' # outcome)
           /\ ENABLED (sim_get_vehicle_track_position(vehicle) /\ status' = outcome)
                  => ~ENABLED (sim_get_vehicle_track_position(vehicle) /\ status' # outcome)
           /\ ENABLED (sim_is_vehicle_off_track(vehicle) /\ status' = outcome)
                  => ~ENABLED (sim_is_vehicle_off_track(vehicle) /\ status' # outcome)

\* C22: in sim_step every substep advances World before it steps any
\* vehicle, and steps each vehicle of the session once: what sim_step leaves
\* is what the last substep makes of the state after the nine before it,
\* World first (which integrates and clears the forces of the substep
\* before, once), then one Vehicle::step per vehicle, whose forces stay in
\* the accumulators for the next World step.
C22_WorldThenEachVehicleOnce ==
    [][ret'.op = "sim_step" =>
           LET Last(world, before, bAfter, vAfter) ==
                   /\ \A i \in 1 .. Len(bodies) :
                          /\ world[bodies[i]].accumulatedForce = Zero3
                          /\ world[bodies[i]].accumulatedTorque = Zero3
                   /\ \A vehicle \in DOMAIN vehicleObj :
                          IF Contains(vehicles, vehicle)
                          THEN <<bAfter[before[vehicle].body], vAfter[vehicle]>>
                                   = VehicleStep(world[before[vehicle].body], before[vehicle],
                                                 SubstepDelta)
                          ELSE /\ vAfter[vehicle] = vehicleObj[vehicle]
                               /\ bAfter[before[vehicle].body] = world[before[vehicle].body]
               Nine(after) ==
                   Last(stepSimulation(bodies, after[1], SubstepDelta), after[2],
                        bodyObj', vehicleObj')
           IN  Nine(Substeps(1, bodies, vehicles, bodyObj, vehicleObj))]_vars

\* a sim_step of a session with a vehicle on the ground: the forces of its
\* last Vehicle::step are in the accumulators of the chassis
C22_Witness ==
    /\ ret.op = "sim_step"
    /\ \E i \in 1 .. Len(vehicles) :
           /\ \E w \in 1 .. 4 : vehicleObj[vehicles[i]].wheels[w].hasContact
           /\ bodyObj[vehicleObj[vehicles[i]].body].accumulatedForce # Zero3

\* C26: every operation runs to completion: in no state the API reaches does
\* a call stay in a loop that never ends (getWaypoints and with it
\* sim_get_observation return, whatever tracks were loaded and wherever the
\* vehicle is).
C26_EveryCallReturns == status # "hung"

\* C27: every curve the loader accepts has an even number of control points
\* and numSegments = numPoints / 2 >= 1, and is closed and continuous: the
\* end of segment k is the start of segment (k + 1) mod numSegments.
C27_AcceptedCurveIsClosed ==
    TrackLoaded
        => /\ Len(track.points) % 2 = 0
           /\ track.numSegments = Len(track.points) \div 2
           /\ track.numSegments >= 1
           /\ \A k \in 0 .. track.numSegments - 1 :
                  /\ InRange(track, k * 2 + 1)
                  /\ Bezier(PointAt(track, k * 2), PointAt(track, k * 2 + 1),
                            PointAt(track, NextIndex(track, k)), SCALE)
                         = PointAt(track, ((k + 1) % track.numSegments) * 2)

\* C28: the three velocity entries of sim_get_observation are written only
\* after all 2 * 20 waypoint points, never after a waypoint section cut
\* short: a call that returns has written out_buffer[0 .. value - 1] in
\* order, its value is an even number of at most 80 waypoint floats, or
\* exactly 80 + 3, and then the entries at 80, 81 and 82 are the chassis
\* rates.
C28_VelocitiesAfterAllWaypoints ==
    Observed
        => /\ Len(ret.writes) = ret.value
           /\ \A i \in 1 .. Len(ret.writes) : ret.writes[i][1] = i - 1
           /\ \/ ret.value % 2 = 0 /\ ret.value <= 4 * NumWaypoints
              \/ /\ ret.value = 4 * NumWaypoints + 3
                 /\ ret.max_floats >= 4 * NumWaypoints + 3
                 /\ LastThree(ret.writes)
                        = ChassisRates(bodyObj[vehicleObj[ret.vehicle].body])
           /\ ret.value <= ret.max_floats \/ ret.value = 0

\* a buffer with room for the waypoints cut short and then for three more
\* floats: the call on a moving vehicle returns the 42 waypoint floats alone
C28_Witness ==
    /\ Observed /\ TrackLoaded
    /\ ret.max_floats = 43 /\ ret.value = 42
    /\ calls.step > 0
    /\ ChassisRates(bodyObj[vehicleObj[ret.vehicle].body]) # <<0, 0, 0>>

\* C29: in every state of a Vehicle the stored compression of each wheel
\* lies in [0, restLength]: it is 0 until the ray of the wheel first reaches
\* the ground, and a step whose ray reaches the ground leaves restLength - t,
\* t the length of the ray, 0 <= t <= restLength.
C29_CompressionWithinTravel ==
    \A i \in 1 .. 4 :
        /\ vehicleObj[1].wheels[i].compression >= 0
        /\ vehicleObj[1].wheels[i].compression <= RestLength
        /\ ~calls.ever[i] => vehicleObj[1].wheels[i].compression = 0
        /\ (ret.op = "Vehicle::step" /\ RayReaches(bodyObj[1], i))
               => vehicleObj[1].wheels[i].compression
                      = RestLength - SuspensionRay(bodyObj[1], i).t

\* a second step, one wheel now out of reach and keeping the compression the
\* first step stored, another in contact and compressed
C29_Witness ==
    /\ ret.op = "Vehicle::step"
    /\ calls.step = 2
    /\ \E i, j \in 1 .. 4 :
           /\ ~vehicleObj[1].wheels[i].hasContact
           /\ vehicleObj[1].wheels[i].compression > 0
           /\ vehicleObj[1].wheels[j].hasContact
           /\ vehicleObj[1].wheels[j].compression > 0
           /\ vehicleObj[1].wheels[j].compression < RestLength

\* C30: for every wheel in contact the suspension force never pulls the
\* chassis toward the ground: in every Vehicle::step, forceMag of each wheel
\* whose ray reaches the ground (the force applied along the ground normal
\* and the normal force of the tire model) is >= 0.
C30_SuspensionNeverPulls ==
    [][ret'.op = "Vehicle::step" =>
           \A i \in 1 .. 4 :
               RayReaches(bodyObj[1], i)
                   => SuspensionForceMag(PrepareWheels(vehicleObj[1])[i],
                                         SuspensionRay(bodyObj[1], i), SubstepDelta) >= 0]_vars

====
